---------------------------- MODULE Spec2Model ----------------------------
(***************************************************************************)
(* Model of the dependency-injection build planner (package `planner`):    *)
(*   - Planner registry            (plan/planner.py)                       *)
(*   - fitness scorer               (plan/fitness_check.py)                 *)
(*   - planning algorithm           (plan/algorithm.py)                     *)
(*   - Plan wrapper                 (plan/plan.py)                          *)
(*   - plan executor                (plan/execution.py)                     *)
(*                                                                         *)
(* Two specifications are defined.  Spec drives the Planner: add() calls    *)
(* fill the registry, plan() starts the planning algorithm, which is       *)
(* stepped one queue entry / one dependency at a time until the graph is   *)
(* pruned and wrapped in a Plan.  ExecSpec drives PlanExecution over the   *)
(* directed acyclic graphs with one sink that a Plan can hold.             *)
(***************************************************************************)
EXTENDS Integers, Sequences, FiniteSets, TLC

VARIABLES
    \* ---- Planner (plan/planner.py) ----
    contract_to_recipes,   \* dict Contract -> set of recipe classes
    recipe_to_context,     \* dict recipe class -> set of context paths
    \* ---- _PlanningAlgorithm (plan/algorithm.py) ----
    pc,                    \* position of the planner: see the actions
    error,                 \* kind of the exception that ended plan(), or None
    node,                  \* arena of GraphNode objects: index = object identity
    G_nodes,               \* set of node indices currently in the graph G
    G_edges,               \* edges (u, v, contract) of G in insertion order
    target_node,           \* index of the target node (0 before plan())
    queue,                 \* deque of planning paths
    parent_path,           \* path being processed by run()
    dep_idx,               \* index of the next dependency in run()'s for loop
    context_obj,           \* per GraphNode of the arena: which set object its context is
    plan_calls,            \* outcomes of the plan() calls made so far, in call order
    \* ---- PlanExecution (plan/execution.py) ----
    xgraph,                \* the plan graph handed to the executor: [n, edges]
    seq,                   \* build order (a topological order of xgraph)
    defer_cleanup,         \* cleanup mode
    entry,                 \* how the execution was started: Plan.run or PlanExecution
    requested,             \* the defer_cleanup argument the caller passed
    xpc,                   \* position of the executor
    pos,                   \* index in seq of the next node to build
    node_to_asset,         \* set of nodes that hold an AssetRecord
    remaining_uses,        \* remaining downstream uses per node
    cleanup_errors,        \* nodes whose release raised (self._cleanup_errors)
    raised,                \* exception that left the run scope, or None
    log,                   \* history of make() and release events
    \* ---- strict_order_match_score (plan/fitness_check.py) ----
    score_call,            \* arguments of a call of the scorer, or None
    score_ret,             \* value the call returned, or None
    score_win,             \* window best_subsequence_window returned for the arguments
    \* ---- the caller of Planner.add ----
    add_calls              \* arguments of the add() calls made, where they are recorded

planVars == <<contract_to_recipes, recipe_to_context, pc, error, node, G_nodes,
              G_edges, target_node, queue, parent_path, dep_idx, context_obj, plan_calls>>
execVars == <<xgraph, seq, defer_cleanup, entry, requested, xpc, pos, node_to_asset,
              remaining_uses, cleanup_errors, raised, log>>
scoreVars == <<score_call, score_ret, score_win>>
vars == <<planVars, execVars, scoreVars, add_calls>>

None == "None"

----------------------------------------------------------------------------
(***************************************************************************)
(* Generic helpers                                                         *)
(***************************************************************************)
Range(s) == {s[i] : i \in 1..Len(s)}

Reverse(s) == [i \in 1..Len(s) |-> s[Len(s) + 1 - i]]

\* F(v), with the value v computed once
Let(v, F(_)) == CHOOSE r \in {F(x) : x \in {v}} : TRUE

\* All enumerations (orders of iteration) of a finite set
Perms(S) == {p \in [1..Cardinality(S) -> S] : \A i, j \in 1..Cardinality(S) : p[i] = p[j] => i = j}

----------------------------------------------------------------------------
(***************************************************************************)
(* Recipe classes.  A recipe class fixes the asset it makes (`_makes`) and *)
(* its injected dependency fields; the key under which the dependency is   *)
(* requested is None throughout.                                           *)
(***************************************************************************)
Contract(asset) == <<asset, None>>

RecipeClasses ==
    {"RT", "RTac", "RTcad", "RTafgb", "RG", "RFabc", "RA", "RAc", "RAd", "RAbd", "RB", "RBs", "RBc",
     "RC", "RD", "RDa", "RDx", "RDed", "RE", "REc", "REx"}

\* Recipe._makes
Makes ==
    [r \in RecipeClasses |->
        CASE r \in {"RT", "RTac", "RTcad", "RTafgb"} -> "T"
          [] r = "RG" -> "G"
          [] r = "RFabc" -> "F"
          [] r \in {"RA", "RAc", "RAd", "RAbd"} -> "A"
          [] r \in {"RB", "RBs", "RBc"} -> "B"
          [] r = "RC" -> "C"
          [] r \in {"RD", "RDa", "RDx", "RDed"} -> "D"
          [] r \in {"RE", "REc", "REx"} -> "E"]

\* _parse_dependencies(recipe): the contracts of the injected fields, in order
parse_dependencies ==
    [r \in RecipeClasses |->
        CASE r = "RT" -> <<Contract("A"), Contract("B")>>
          [] r = "RTac" -> <<Contract("A"), Contract("C")>>
          [] r = "RTcad" -> <<Contract("C"), Contract("A"), Contract("D")>>
          [] r = "RTafgb" -> <<Contract("A"), Contract("F"), Contract("G"), Contract("B")>>
          [] r = "RG" -> <<Contract("A")>>
          [] r = "RFabc" -> <<Contract("A"), Contract("B"), Contract("C")>>
          [] r = "RAbd" -> <<Contract("B"), Contract("D")>>
          [] r = "RAc" -> <<Contract("C")>>
          [] r = "RDed" -> <<Contract("E"), Contract("D")>>
          [] r = "REx" -> <<>>
          [] r = "RA" -> <<Contract("B")>>
          [] r = "RAd" -> <<Contract("D")>>
          [] r = "RB" -> <<Contract("C"), Contract("D")>>
          [] r = "RBs" -> <<Contract("D")>>
          [] r = "RBc" -> <<Contract("C")>>
          [] r = "RC" -> <<Contract("D")>>
          [] r = "RD" -> <<>>
          [] r = "RDa" -> <<>>
          [] r = "RDx" -> <<Contract("E")>>
          [] r = "RE" -> <<>>
          [] r = "REc" -> <<Contract("D")>>]

----------------------------------------------------------------------------
(***************************************************************************)
(* Fitness scorer (plan/fitness_check.py)                                  *)
(*                                                                         *)
(* Positions and windows are 0-based as in the source; sequences are       *)
(* 1-based TLA+ sequences, so element k of the source is s[k+1].           *)
(***************************************************************************)

\* forward scan of best_subsequence_window: from position j with ci elements
\* of context matched; the value of j when the loop ends and whether ci = m
RECURSIVE ForwardScan(_, _, _, _)
ForwardScan(context, sq, j, ci) ==
    IF j < Len(sq) /\ ci < Len(context)
    THEN Let(IF sq[j + 1] = context[ci + 1] THEN ci + 1 ELSE ci,
             LAMBDA nci : ForwardScan(context, sq, j + 1, nci))
    ELSE [j |-> j, ci |-> ci]

\* Python's None for a start position / a window
NoStart == 0 - 1
NoWindow == <<>>

\* backward tighten of best_subsequence_window: NoStart or the start position
RECURSIVE BackwardTighten(_, _, _, _, _)
BackwardTighten(context, sq, i, k, ci) ==
    IF k >= i
    THEN IF sq[k + 1] = context[ci + 1]
         THEN IF ci - 1 < 0 THEN k ELSE BackwardTighten(context, sq, i, k - 1, ci - 1)
         ELSE BackwardTighten(context, sq, i, k - 1, ci)
    ELSE NoStart

\* the `while True` loop of best_subsequence_window, from position i with
\* the best window so far
RECURSIVE WindowLoop(_, _, _, _)

\* variant: the loop ends after the first window
FirstWindowOnly(context, sq, start, nbest) == nbest

\* `i = start + 1`, and the loop's exit when i >= n
WindowNext(context, sq, start, nbest) ==
    IF start + 1 >= Len(sq) THEN nbest
    ELSE Let(start + 1, LAMBDA i : WindowLoop(context, sq, i, nbest))

\* after the backward tighten: record the window (start, end) if it is shorter
WindowFound(context, sq, best, start, end) ==
    IF start = NoStart THEN best
    ELSE Let(IF best = NoWindow \/ (end - start) < (best[2] - best[1])
             THEN <<start, end>> ELSE best,
             LAMBDA nbest : WindowNext(context, sq, start, nbest))

\* after the forward scan fw: stop when the context was not matched
WindowScanned(context, sq, i, best, fw) ==
    IF fw.ci < Len(context) THEN best
    ELSE Let(BackwardTighten(context, sq, i, fw.j - 1, Len(context) - 1),
             LAMBDA start : WindowFound(context, sq, best, start, fw.j - 1))

WindowLoop(context, sq, i, best) ==
    Let(ForwardScan(context, sq, i, 0), LAMBDA fw : WindowScanned(context, sq, i, best, fw))

best_subsequence_window(context, sq) ==
    IF Len(context) = 0 THEN <<0, -1>> ELSE WindowLoop(context, sq, 0, NoWindow)

(***************************************************************************)
(* strict_order_match_score with the parameters the planner passes:        *)
(* epsilon = 1e-9, early_tie_breaker = 1/10, length_weight = 1.            *)
(*                                                                         *)
(* The float score is represented exactly, up to a positive factor that    *)
(* depends only on n = len(edge_path_keys).  With                          *)
(*     K(n) = (EarlyTieDen + EarlyTieNum) * ScoreScale * (n + epsilon)     *)
(* the source's value times K(n) is   a + b * epsilon   with integers a, b *)
(*   empty context :  a = 0,  b = (EarlyTieDen + EarlyTieNum) * ScoreScale *)
(*   no window     :  a = 0,  b = 0                                        *)
(*   window        :  a = EarlyTieDen*ScoreScale*m/(1+gaps)                *)
(*                        + EarlyTieNum*ScoreScale*n/(1+start)             *)
(*                    b = EarlyTieDen*ScoreScale/(1+gaps)                  *)
(*                        + EarlyTieNum*ScoreScale/(1+start)               *)
(* A score is the pair <<a, b>>.  Every comparison the planner makes is    *)
(* between scores on the same path (same n), and b * epsilon < 1, so the   *)
(* order of the floats is the lexicographic order of the pairs.            *)
(* ScoreScale is a common multiple of every 1+gaps and 1+start (<= 8).     *)
(***************************************************************************)
EarlyTieNum == 1
EarlyTieDen == 10
ScoreScale == 2 * 2 * 2 * 3 * 5 * 7

\* the score of a window with the given start and gaps
WindowScore(m, n, start, gaps) ==
    << (EarlyTieDen * ScoreScale * m) \div (1 + gaps)
         + (EarlyTieNum * ScoreScale * n) \div (1 + start),
       (EarlyTieDen * ScoreScale) \div (1 + gaps)
         + (EarlyTieNum * ScoreScale) \div (1 + start) >>

\* variant: a window with gaps scores nothing
GaplessOnly(win, m, n) ==
    IF win = NoWindow \/ (win[2] - win[1] + 1) - m > 0 THEN <<0, 0>>
    ELSE WindowScore(m, n, win[1], 0)
\* `if win is None: return 0.0`, else start, span_len and gaps of the window
ScoreOfWindow(win, m, n) ==
    IF win = NoWindow THEN <<0, 0>>
    ELSE WindowScore(m, n, win[1], (win[2] - win[1] + 1) - m)

\* variant: the empty context scores 0.0
EmptyScoresZero(context, edge_path_keys) ==
    IF Len(context) = 0 THEN <<0, 0>>
    ELSE ScoreOfWindow(best_subsequence_window(context, edge_path_keys),
                       Len(context), Len(edge_path_keys))

\* variant: the empty context gets the full score 1.0
EmptyScoresFull(context, edge_path_keys) ==
    IF Len(context) = 0
    THEN <<(EarlyTieDen + EarlyTieNum) * ScoreScale * Len(edge_path_keys),
           (EarlyTieDen + EarlyTieNum) * ScoreScale>>
    ELSE ScoreOfWindow(best_subsequence_window(context, edge_path_keys),
                       Len(context), Len(edge_path_keys))
strict_order_match_score(context, edge_path_keys) ==
    IF Len(context) = 0 THEN <<0, (EarlyTieDen + EarlyTieNum) * ScoreScale>>
    ELSE Let(best_subsequence_window(context, edge_path_keys),
             LAMBDA win : ScoreOfWindow(win, Len(context), Len(edge_path_keys)))

\* float comparisons on scores
Zero == <<0, 0>>
FitGT(f, g) == f[1] > g[1] \/ (f[1] = g[1] /\ f[2] > g[2])
FitGE(f, g) == ~FitGT(g, f)
FitMax(S) == CHOOSE f \in S : \A g \in S : FitGE(f, g)


----------------------------------------------------------------------------
(***************************************************************************)
(* Graph helpers: the networkx.MultiDiGraph operations the planner uses.   *)
(* A graph is a set of nodes and a sequence E of edges <<u, v, contract>>  *)
(* in insertion order.  An edge key is the contract, so an edge that is    *)
(* added twice is stored once.  Every (u, v) pair carries one contract     *)
(* here, so the adjacency iteration order of networkx is the order of E.   *)
(***************************************************************************)
GraphAddEdge(E, e) == IF e \in Range(E) THEN E ELSE Append(E, e)

RECURSIVE GraphAddEdges(_, _)
GraphAddEdges(E, es) ==
    IF Len(es) = 0 THEN E
    ELSE Let(GraphAddEdge(E, Head(es)), LAMBDA nE : GraphAddEdges(nE, Tail(es)))

GraphRemoveEdge(E, e) == SelectSeq(E, LAMBDA x : x # e)

\* G.in_edges(n, keys=True) / G.edges(n, keys=True)
InEdges(E, n) == SelectSeq(E, LAMBDA e : e[2] = n)
OutEdges(E, n) == SelectSeq(E, LAMBDA e : e[1] = n)

\* nodes reached from the set `front` by following edges backwards / forwards
RECURSIVE BackwardClosure(_, _)
BackwardClosure(E, front) ==
    LET more == {e[1] : e \in {x \in Range(E) : x[2] \in front}} \ front
    IN IF more = {} THEN front ELSE BackwardClosure(E, front \cup more)

RECURSIVE ForwardClosure(_, _)
ForwardClosure(E, front) ==
    LET more == {e[2] : e \in {x \in Range(E) : x[1] \in front}} \ front
    IN IF more = {} THEN front ELSE ForwardClosure(E, front \cup more)

\* nx.ancestors(G, n) / nx.descendants(G, n): n itself is never included
Ancestors(E, n) == BackwardClosure(E, {n}) \ {n}
Descendants(E, n) == ForwardClosure(E, {n}) \ {n}

\* nx.is_directed_acyclic_graph(G)
is_directed_acyclic_graph(E) ==
    \A e \in Range(E) : e[1] # e[2] /\ e[1] \notin ForwardClosure(E, {e[2]})

\* G.out_degree(n)
OutDegree(E, n) == Len(OutEdges(E, n))

\* nx.all_simple_edge_paths(G, source, target): depth-first in adjacency
\* order; `out` are the out-edges of the last node still to be tried
RECURSIVE SimpleEdgePathsFrom(_, _, _, _)
SimpleEdgePathsFrom(E, out, target, visited) ==
    IF Len(out) = 0 THEN <<>>
    ELSE LET e == Head(out)
             here == IF e[2] \in visited THEN <<>>
                     ELSE IF e[2] = target THEN << <<e>> >>
                     ELSE LET sub == SimpleEdgePathsFrom(E, OutEdges(E, e[2]), target,
                                                          visited \cup {e[2]})
                          IN [i \in 1..Len(sub) |-> <<e>> \o sub[i]]
         IN here \o SimpleEdgePathsFrom(E, Tail(out), target, visited)

all_simple_edge_paths(E, source, target) ==
    IF source = target THEN << <<>> >>
    ELSE SimpleEdgePathsFrom(E, OutEdges(E, source), target, {source})


----------------------------------------------------------------------------
(***************************************************************************)
(* Planning algorithm (plan/algorithm.py): pure parts                      *)
(***************************************************************************)

\* GraphNode(recipe, context)
GraphNode(recipe, context) == [recipe |-> recipe, context |-> context]

\* variant: the contracts of the path are left out, only the target's counts
FitnessAtTarget(context, path) ==
    FitMax({strict_order_match_score(context_path, edge_path_keys) :
               context_path \in {Reverse(c) : c \in context},
               edge_path_keys \in {<< <<Makes[node[target_node].recipe], None>> >>}})
\* _PlanningAlgorithm.compute_fitness
compute_fitness(context, path) ==
    LET contracts_path == [i \in 1..Len(path) |-> path[i][3]]
                            \o << <<Makes[node[target_node].recipe], None>> >>
    IN FitMax({strict_order_match_score(context_path, edge_path_keys) :
                  context_path \in {Reverse(c) : c \in context},
                  edge_path_keys \in {Reverse(contracts_path)}})

\* variant: recipes of fitness 0 are not skipped
PickRegardlessOfFitness(contract, path) ==
    LET fit(r) == compute_fitness(recipe_to_context[r], path)
        none == [kind |-> "none", recipe |-> None, fitness |-> Zero]
    IN IF contract \notin DOMAIN contract_to_recipes THEN none
       ELSE LET scored == contract_to_recipes[contract]
                best_recipes == {r \in scored : \A q \in scored : FitGE(fit(r), fit(q))}
            IN IF Cardinality(best_recipes) > 1
               THEN [kind |-> "ambiguous", recipe |-> None, fitness |-> Zero]
               ELSE LET best_recipe == CHOOSE r \in best_recipes : TRUE
                    IN [kind |-> "pick", recipe |-> best_recipe, fitness |-> fit(best_recipe)]
\* variant: of several best-fit recipes one is picked
PickOneOfTheBest(contract, path) ==
    LET fit(r) == compute_fitness(recipe_to_context[r], path)
        none == [kind |-> "none", recipe |-> None, fitness |-> Zero]
    IN IF contract \notin DOMAIN contract_to_recipes THEN none
       ELSE LET scored == {r \in contract_to_recipes[contract] : fit(r) # Zero}
                best_recipes == {r \in scored : \A q \in scored : FitGE(fit(r), fit(q))}
            IN IF best_recipes = {} THEN none
               ELSE LET best_recipe == CHOOSE r \in best_recipes : TRUE
                    IN [kind |-> "pick", recipe |-> best_recipe, fitness |-> fit(best_recipe)]
\* _PlanningAlgorithm.pick_recipe: a RecipePick, None (kind "none"), or the
\* RuntimeError for several best-fit recipes (kind "ambiguous")
pick_recipe(contract, path) ==
    LET fit(r) == compute_fitness(recipe_to_context[r], path)
        none == [kind |-> "none", recipe |-> None, fitness |-> Zero]
        best(scored) == {r \in scored : \A q \in scored : FitGE(fit(r), fit(q))}
        pick(best_recipes) ==
            IF Cardinality(best_recipes) > 1
            THEN [kind |-> "ambiguous", recipe |-> None, fitness |-> Zero]
            ELSE IF best_recipes = {} THEN none
            ELSE LET best_recipe == CHOOSE r \in best_recipes : TRUE
                 IN [kind |-> "pick", recipe |-> best_recipe, fitness |-> fit(best_recipe)]
    IN IF contract \notin DOMAIN contract_to_recipes THEN none
       ELSE Let({r \in contract_to_recipes[contract] : fit(r) # Zero},
                LAMBDA scored : Let(best(scored), pick))

\* variant: no existing node is ever reused
NeverReuse(picked_recipe, path) == 0
\* _PlanningAlgorithm.pick_existing_node: the node index, or 0 for None.
\* G is iterated in insertion order, which is the order of the arena; the
\* first node with the highest fitness >= picked.fitness wins.
pick_existing_node(picked_recipe, path) ==
    LET fit(n) == compute_fitness(node[n].context, path)
        top(ok) == {n \in ok : \A q \in ok : FitGE(fit(n), fit(q))}
        first(ok) == IF ok = {} THEN 0
                     ELSE Let(top(ok), LAMBDA t : CHOOSE n \in t : \A q \in t : n <= q)
    IN Let({n \in G_nodes : node[n].recipe = picked_recipe.recipe
                               /\ FitGE(fit(n), picked_recipe.fitness)}, first)

\* curr_child_node of satisfy_dependency: first in-edge of the parent that
\* carries the contract, or 0 for None
curr_child_node(parent, contract) ==
    LET carrying == SelectSeq(InEdges(G_edges, parent), LAMBDA e : e[3] = contract)
    IN IF Len(carrying) = 0 THEN 0 ELSE carrying[1][1]

(***************************************************************************)
(* compute_isolating_edge.  `isolating_edges` is a Python dict: a sequence *)
(* of entries [edge, paths] in insertion order.                            *)
(***************************************************************************)
IsoHas(iso, e) == \E i \in 1..Len(iso) : iso[i].edge = e

IsoAdd(iso, e, p) ==
    IF IsoHas(iso, e)
    THEN [i \in 1..Len(iso) |->
             IF iso[i].edge = e THEN [iso[i] EXCEPT !.paths = @ \cup {p}] ELSE iso[i]]
    ELSE Append(iso, [edge |-> e, paths |-> {p}])

\* variant: every edge of a matching path is entered, whether it was seen on
\* a non-matching path or not
RECURSIVE EnterEveryEdge(_, _, _, _)
EnterEveryEdge(iso, nonmatching, p, i) ==
    IF i > Len(p) THEN iso
    ELSE Let(IsoAdd(iso, p[i], p),
             LAMBDA niso : EnterEveryEdge(niso, nonmatching, p, i + 1))

\* `for edge in _path` of a matching path
RECURSIVE IsoMatching(_, _, _, _)
IsoMatching(iso, nonmatching, p, i) ==
    IF i > Len(p) THEN iso
    ELSE Let(IF p[i] \in nonmatching THEN iso ELSE IsoAdd(iso, p[i], p),
             LAMBDA niso : IsoMatching(niso, nonmatching, p, i + 1))

\* variant: a path counts as matching only when the current child's own
\* fitness on it is above zero as well
RECURSIVE ScanChildAboveZero(_, _, _, _, _)
ScanChildAboveZero(paths, i, st, context, curr_context) ==
    IF i > Len(paths) THEN st
    ELSE LET p == paths[i]
             curr_fitness == compute_fitness(curr_context, p)
             fitness == compute_fitness(context, p)
         IN Let(IF FitGT(fitness, curr_fitness) /\ FitGT(curr_fitness, Zero)
                THEN [matching_paths |-> st.matching_paths \cup {p},
                      isolating_edges |-> IsoMatching(st.isolating_edges, st.nonmatching, p, 1),
                      nonmatching |-> st.nonmatching]
                ELSE [matching_paths |-> st.matching_paths,
                      isolating_edges |-> SelectSeq(st.isolating_edges,
                                                    LAMBDA x : x.edge \notin Range(p)),
                      nonmatching |-> st.nonmatching \cup Range(p)],
                LAMBDA nst : ScanChildAboveZero(paths, i + 1, nst, context, curr_context))

\* the loop over nx.all_simple_edge_paths
RECURSIVE IsoScan(_, _, _, _, _)
IsoScan(paths, i, st, context, curr_context) ==
    IF i > Len(paths) THEN st
    ELSE LET p == paths[i]
             curr_fitness == compute_fitness(curr_context, p)
             fitness == compute_fitness(context, p)
         IN Let(IF FitGT(fitness, Zero) /\ FitGT(fitness, curr_fitness)
                THEN [matching_paths |-> st.matching_paths \cup {p},
                      isolating_edges |-> IsoMatching(st.isolating_edges, st.nonmatching, p, 1),
                      nonmatching |-> st.nonmatching]
                ELSE [matching_paths |-> st.matching_paths,
                      isolating_edges |-> SelectSeq(st.isolating_edges,
                                                    LAMBDA x : x.edge \notin Range(p)),
                      nonmatching |-> st.nonmatching \cup Range(p)],
                LAMBDA nst : IsoScan(paths, i + 1, nst, context, curr_context))

\* the greedy `while isolating_edges` loop: max() returns the first entry
\* with the largest number of paths
RECURSIVE IsoGreedy(_, _, _)
IsoGreedy(iso, matching_paths, picked_edges) ==
    IF Len(iso) = 0 THEN [picked_edges |-> picked_edges, matching_paths |-> matching_paths]
    ELSE LET b == CHOOSE i \in 1..Len(iso) :
                     /\ \A j \in 1..Len(iso) : Cardinality(iso[j].paths) <= Cardinality(iso[i].paths)
                     /\ \A j \in 1..(i - 1) : Cardinality(iso[j].paths) < Cardinality(iso[i].paths)
             covered == iso[b].paths
             less == [i \in 1..Len(iso) |-> [iso[i] EXCEPT !.paths = @ \ covered]]
         IN Let([iso |-> SelectSeq(less, LAMBDA x : x.paths # {}),
                 matching_paths |-> matching_paths \ covered,
                 picked_edges |-> picked_edges \cup {iso[b].edge}],
                LAMBDA n : IsoGreedy(n.iso, n.matching_paths, n.picked_edges))

\* result: the picked edges, and the matching paths left uncovered (the
\* source raises ValueError "No isolating edge" when there are any)
compute_isolating_edge(context, parent_node, curr_child) ==
    Let(all_simple_edge_paths(G_edges, parent_node, target_node),
        LAMBDA paths :
            Let(IsoScan(paths, 1,
                        [matching_paths |-> {}, isolating_edges |-> <<>>, nonmatching |-> {}],
                        context, node[curr_child].context),
                LAMBDA st : IsoGreedy(st.isolating_edges, st.matching_paths, {})))


----------------------------------------------------------------------------
(***************************************************************************)
(* Planner registry (plan/planner.py)                                      *)
(***************************************************************************)

\* The Python values a caller may pass as a context, tagged by their type:
\* an Asset class, a set, a tuple, a list, a str, an int and None
PyAsset(a) == [asset |-> a]
PySet(S) == [set |-> S]
PyTuple(s) == [tuple |-> s]
PyList(s) == [list |-> s]
PyStr(s) == [str |-> s]
PyInt(i) == [int |-> i]
PyNone == [none |-> TRUE]

\* is_asset_class(obj), isinstance(obj, Set), isinstance(obj, tuple) and
\* isinstance(obj, str | None)
is_asset_class(obj) == DOMAIN obj = {"asset"}
IsSet(obj) == DOMAIN obj = {"set"}
IsTuple(obj) == DOMAIN obj = {"tuple"}
IsStrOrNone(obj) == DOMAIN obj \in {{"str"}, {"none"}}

\* `isinstance(x, Set) and x and all(is_asset_class(c) for c in x)`, and the
\* same test for keys
IsAssetSet(obj) == IsSet(obj) /\ obj.set # {} /\ \A c \in obj.set : is_asset_class(c)
IsKeySet(obj) == IsSet(obj) /\ obj.set # {} /\ \A c \in obj.set : IsStrOrNone(c)

\* the key of a contract: a str or None
KeyOf(obj) == IF DOMAIN obj = {"none"} THEN None ELSE obj.str

\* What resolve_contract_def does: it raises ValueError("Invalid input") or
\* returns a set of contracts
Invalid == [raised |-> "ValueError", contracts |-> {}]
Resolved(contracts) == [raised |-> None, contracts |-> contracts]

resolve_contract_def(cdef) ==
    IF is_asset_class(cdef) THEN Resolved({<<cdef.asset, None>>})
    ELSE IF IsAssetSet(cdef) THEN Resolved({<<c.asset, None>> : c \in cdef.set})
    ELSE IF ~IsTuple(cdef) THEN Invalid
    ELSE IF Len(cdef.tuple) # 2 THEN Invalid
    ELSE IF ~(is_asset_class(cdef.tuple[1]) \/ IsAssetSet(cdef.tuple[1])) THEN Invalid
    ELSE IF ~(IsStrOrNone(cdef.tuple[2]) \/ IsKeySet(cdef.tuple[2])) THEN Invalid
    ELSE LET assets == IF is_asset_class(cdef.tuple[1]) THEN {cdef.tuple[1].asset}
                       ELSE {c.asset : c \in cdef.tuple[1].set}
             keys == IF IsStrOrNone(cdef.tuple[2]) THEN {KeyOf(cdef.tuple[2])}
                     ELSE {KeyOf(c) : c \in cdef.tuple[2].set}
         IN Resolved(assets \X keys)

\* itertools.product over a sequence of sets: the set of tuples
RECURSIVE Product(_)
Product(parts) ==
    IF Len(parts) = 0 THEN {<<>>}
    ELSE {<<x>> \o rest : x \in Head(parts), rest \in Product(Tail(parts))}

\* `for elem in context`: whether the value can be iterated, and the orders
\* in which its elements may come.  A tuple or a list comes in its order, a
\* set in any order, a str as its characters, each of them a str (one stands
\* for them all here); an int and None cannot be iterated.
Iterable(obj) == DOMAIN obj \in {{"tuple"}, {"list"}, {"set"}, {"str"}}
Iterations(obj) ==
    IF DOMAIN obj = {"tuple"} THEN {obj.tuple}
    ELSE IF DOMAIN obj = {"list"} THEN {obj.list}
    ELSE IF DOMAIN obj = {"set"} THEN Perms(obj.set)
    ELSE IF obj.str = "" THEN {<<>>} ELSE {<<obj>>}

\* context_paths of Planner._add: the context is tried as a single contract
\* definition; when that raises, it is iterated as a sequence of contract
\* definitions (`except Exception`), which raises TypeError when it cannot
\* be iterated and ValueError when an element is no contract definition.
\* The outcomes the call can have: an exception, or the context paths.
PathsOf(elems) ==
    LET parts == [i \in 1..Len(elems) |-> resolve_contract_def(elems[i])]
    IN IF \E i \in 1..Len(elems) : parts[i].raised # None
       THEN [raised |-> "ValueError", paths |-> {}]
       ELSE [raised |-> None, paths |-> Product([i \in 1..Len(elems) |-> parts[i].contracts])]

context_paths_of(context) ==
    LET single == resolve_contract_def(context)
    IN IF single.raised = None
       THEN {[raised |-> None, paths |-> {<<contract>> : contract \in single.contracts}]}
       ELSE IF ~Iterable(context) THEN {[raised |-> "TypeError", paths |-> {}]}
       ELSE {PathsOf(elems) : elems \in Iterations(context)}

\* dict[key] = values: the values of earlier calls are lost
DictAssign(d, key, values) ==
    IF key \in DOMAIN d THEN [d EXCEPT ![key] = values] ELSE d @@ (key :> values)

\* dict[key] = dict.get(key, set()) | values
DictUnion(d, key, values) ==
    IF key \in DOMAIN d THEN [d EXCEPT ![key] = @ \cup values] ELSE d @@ (key :> values)

\* _add after the context paths are known: `assert context_paths`, then the
\* recipe is registered under its contract and the context paths are added
\* to its context.  reg is the registry, as [contract_to_recipes, recipe_to_context].
_add(reg, recipe, key, out) ==
    IF reg.raised # None THEN reg
    ELSE IF out.raised # None THEN [reg EXCEPT !.raised = out.raised]
    ELSE IF out.paths = {} THEN [reg EXCEPT !.raised = "AssertionError"]
    ELSE [raised |-> None,
          contract_to_recipes |-> DictUnion(reg.contract_to_recipes, <<Makes[recipe], key>>, {recipe}),
          recipe_to_context |-> DictUnion(reg.recipe_to_context, recipe, out.paths)]

\* A context that is a tuple of asset classes
Path(assets) == PyTuple([i \in 1..Len(assets) |-> PyAsset(assets[i])])

\* The add() calls the environment may make: (recipe class, key, context)
AddCalls ==
    { <<"RT", None, Path(<<>>)>>, <<"RA", None, Path(<<>>)>>, <<"RB", None, Path(<<>>)>>,
      <<"RBs", None, Path(<<>>)>>, <<"RC", None, Path(<<>>)>>, <<"RD", None, Path(<<>>)>>,
      <<"RDa", None, Path(<<"A">>)>>, <<"RDx", None, Path(<<>>)>>, <<"RDx", None, Path(<<"A">>)>>,
      <<"RE", None, Path(<<>>)>>, <<"RE", None, Path(<<"E">>)>>, <<"REc", None, Path(<<>>)>>,
      <<"REc", None, Path(<<"C", "A">>)>> }

\* The assets plan() may be asked for
PlanTargets == {"T", "D"}

\* Number of (recipe, context path) registrations held by the registry
Registrations(r2c) ==
    Cardinality({x \in (DOMAIN r2c) \X UNION {r2c[r] : r \in DOMAIN r2c} : x[2] \in r2c[x[1]]})

\* Bound on the size of the registry
MaxRegistrations == 9


----------------------------------------------------------------------------
(***************************************************************************)
(* Planner actions                                                         *)
(***************************************************************************)
EmptyDict == [x \in {} |-> {}]

\* The executor is not running while the planner is driven
ExecIdle ==
    /\ xgraph = [n |-> 0, edges |-> {}]
    /\ seq = <<>>
    /\ defer_cleanup = FALSE
    /\ entry = None
    /\ requested = None
    /\ xpc = "idle"
    /\ pos = 0
    /\ node_to_asset = {}
    /\ remaining_uses = <<>>
    /\ cleanup_errors = <<>>
    /\ raised = None
    /\ log = <<>>

\* Planner.__init__
PlannerInit ==
    /\ contract_to_recipes = EmptyDict
    /\ recipe_to_context = EmptyDict
    /\ pc = "planner"
    /\ error = None
    /\ node = <<>>
    /\ G_nodes = {}
    /\ G_edges = <<>>
    /\ target_node = 0
    /\ queue = <<>>
    /\ parent_path = <<>>
    /\ dep_idx = 0
    /\ context_obj = <<>>
    /\ plan_calls = <<>>
    /\ add_calls = <<>>

\* No call of the scorer from outside the planner is under way
ScoreIdle == score_call = None /\ score_ret = None /\ score_win = None

Init == PlannerInit /\ ExecIdle /\ ScoreIdle

\* The registry of the Planner when add() is called
Registry ==
    [raised |-> None, contract_to_recipes |-> contract_to_recipes,
     recipe_to_context |-> recipe_to_context]

\* add() is over: the registry it leaves and the exception it raised, if any
AddEnds(reg) ==
    /\ Registrations(reg.recipe_to_context) <= MaxRegistrations
    /\ contract_to_recipes' = reg.contract_to_recipes
    /\ recipe_to_context' = reg.recipe_to_context
    /\ error' = reg.raised

\* Planner.add(recipe, key, context) for a recipe class -> Planner._add
Add(recipe, key, context) ==
    /\ pc = "planner"
    /\ \E out \in context_paths_of(context) : AddEnds(_add(Registry, recipe, key, out))
    /\ UNCHANGED <<pc, node, G_nodes, G_edges, target_node, queue, parent_path, dep_idx,
                   context_obj, plan_calls>>
    /\ UNCHANGED <<execVars, scoreVars>>

\* Python's `key or own`
Or(key, own) == IF key \in {None, ""} THEN own ELSE key

\* `for r in recipe.recipes: self._add(r[0], key=key or r[1], context=context)`
\* over the members in the order given; out is what the resolution of the
\* context comes to, the same in the call for each member (the context is
\* one object, which is iterated in one order every time)
RECURSIVE AddMembers(_, _, _, _)
AddMembers(reg, members, key, out) ==
    IF Len(members) = 0 THEN reg
    ELSE AddMembers(_add(reg, Head(members)[1], Or(key, Head(members)[2]), out),
                    Tail(members), key, out)

\* Planner.add(recipe, key, context) for a RecipeBundle, whose field
\* `recipes` is a set of (recipe class, key) pairs iterated in any order
AddBundle(bundle, key, context) ==
    /\ pc = "planner"
    /\ \E members \in Perms(bundle.recipes), out \in context_paths_of(context) :
          AddEnds(AddMembers(Registry, members, key, out))
    /\ UNCHANGED <<pc, node, G_nodes, G_edges, target_node, queue, parent_path, dep_idx,
                   context_obj, plan_calls>>
    /\ UNCHANGED <<execVars, scoreVars>>

\* The set object recipe_to_context[recipe] of the Planner, and the set object
\* a `{()}` literal creates in the call-th plan() call
RegistrySet(recipe) == [kind |-> "recipe_to_context", recipe |-> recipe, call |-> 0]
FreshSet(call) == [kind |-> "literal", recipe |-> None, call |-> call]

\* What a plan() call leaves behind: the exception it raised (None when it
\* returned a Plan), the registry it worked on and the graph it built
PlanCall(kind, N, O, GN, E) ==
    [error |-> kind, contract_to_recipes |-> contract_to_recipes,
     recipe_to_context |-> recipe_to_context, node |-> N, context_obj |-> O,
     G_nodes |-> GN, G_edges |-> E, target_node |-> target_node]

\* an exception leaves plan()
Fail(kind) ==
    /\ pc' = "failed"
    /\ error' = kind
    /\ plan_calls' = Append(plan_calls, PlanCall(kind, node, context_obj, G_nodes, G_edges))
    /\ UNCHANGED <<node, G_nodes, G_edges, target_node, queue, parent_path, dep_idx, context_obj>>

\* variant: every recipe registered for the contract counts as a target recipe
AnyContextRecipes(target_contract) ==
    IF target_contract \in DOMAIN contract_to_recipes
    THEN contract_to_recipes[target_contract]
    ELSE {}
\* plan(): _target_recipes, the recipes registered for the target contract
\* that have the empty path () among their contexts
target_recipes(target_contract) ==
    IF target_contract \in DOMAIN contract_to_recipes
    THEN {r \in contract_to_recipes[target_contract] : <<>> \in recipe_to_context[r]}
    ELSE {}

\* Planner.plan(asset, key) up to and including _PlanningAlgorithm.__init__
Plan(asset, key) ==
    /\ pc = "planner"
    /\ LET target_contract == <<asset, key>>
       IN IF Cardinality(target_recipes(target_contract)) > 1 THEN Fail("TooManyTargetRecipes")
          ELSE IF target_recipes(target_contract) = {} THEN Fail("MissingTargetRecipe")
          ELSE /\ node' = << GraphNode(CHOOSE r \in target_recipes(target_contract) : TRUE,
                                       {<<>>}) >>
               /\ context_obj' = << FreshSet(Len(plan_calls) + 1) >>
               /\ G_nodes' = {1}
               /\ G_edges' = <<>>
               /\ target_node' = 1
               /\ queue' = << <<>> >>
               /\ pc' = "queue"
               /\ UNCHANGED <<error, parent_path, dep_idx, plan_calls>>
    /\ UNCHANGED <<contract_to_recipes, recipe_to_context>>
    /\ UNCHANGED <<execVars, scoreVars, add_calls>>

\* parent_node of run(): the nearest endpoint of the path
ParentOf(path) == IF Len(path) > 0 THEN path[1][1] ELSE target_node

\* variant: a path that does not exist any more is put back on the queue
PutBack(path) == Append(Tail(queue), path)
\* run(): `continue` for a path that does not exist any more: the path,
\* popped from the queue, is dropped
Continue(path) == Tail(queue)

\* run(): one iteration of `while self.queue` up to the for loop
Dequeue ==
    /\ pc = "queue"
    /\ queue # <<>>
    /\ LET path == Head(queue)
           parent == ParentOf(path)
       IN IF ~\A i \in 1..Len(path) : path[i] \in Range(G_edges)
          THEN queue' = Continue(path) /\ UNCHANGED <<pc, parent_path, dep_idx>>
          ELSE /\ queue' = Tail(queue)
               /\ IF Len(parse_dependencies[node[parent].recipe]) > 0
                  THEN pc' = "deps" /\ parent_path' = path /\ dep_idx' = 1
                  ELSE UNCHANGED <<pc, parent_path, dep_idx>>
    /\ UNCHANGED <<contract_to_recipes, recipe_to_context, error, node, G_nodes, G_edges, target_node,
                   context_obj, plan_calls>>
    /\ UNCHANGED <<execVars, scoreVars, add_calls>>

\* the for loop of run() moves to the next dependency, or the iteration ends
NextDep ==
    IF dep_idx < Len(parse_dependencies[node[ParentOf(parent_path)].recipe])
    THEN pc' = "deps" /\ dep_idx' = dep_idx + 1 /\ UNCHANGED parent_path
    ELSE pc' = "queue" /\ dep_idx' = 0 /\ parent_path' = <<>>

\* variant: a path is put on the queue for a new edge only, not for an edge
\* the graph has already
EnqueueNewEdgeOnly(N, O, GN, E, child, parent, contract) ==
    IF <<child, parent, contract>> \in Range(parent_path) THEN Fail("Cycle")
    ELSE /\ node' = N
         /\ context_obj' = O
         /\ G_nodes' = GN
         /\ G_edges' = E
         /\ queue' = IF <<child, parent, contract>> \in Range(G_edges) THEN queue
                      ELSE Append(queue, << <<child, parent, contract>> >> \o parent_path)
         /\ NextDep
         /\ UNCHANGED <<error, target_node, plan_calls>>

\* _PlanningAlgorithm.use_edge, on the graph (N, GN, E) built so far; O names
\* the context set object of every node of N
use_edge(N, O, GN, E, child, parent, contract) ==
    IF <<child, parent, contract>> \in Range(parent_path) THEN Fail("Cycle")
    ELSE /\ node' = N
         /\ context_obj' = O
         /\ G_nodes' = GN
         /\ G_edges' = E
         /\ queue' = Append(queue, << <<child, parent, contract>> >> \o parent_path)
         /\ NextDep
         /\ UNCHANGED <<error, target_node, plan_calls>>

\* _PlanningAlgorithm.add_edge, on the graph (N, GN, E) built so far
add_edge(N, O, GN, E, child, parent, contract) ==
    LET satisfied_contracts == {e[3] : e \in Range(InEdges(E, parent))}
    IN IF contract \in satisfied_contracts THEN Fail("DoubleContract")
       ELSE use_edge(N, O, GN \cup {child, parent},
                     GraphAddEdge(E, <<child, parent, contract>>), child, parent, contract)

(***************************************************************************)
(* perform_split.  Python iterates sets of node objects and of edge tuples *)
(* in an order that depends on object addresses; every such order is a     *)
(* parameter: H_order (H.nodes), h_edges (set(H.edges)), b_edges (the set  *)
(* of boundary edges) and i_edges (isolating_edges).                       *)
(***************************************************************************)
\* variant: H without the parent itself
BetweenOnly(parent_node, isolating_edges) ==
    Descendants(G_edges, parent_node)
        \cap UNION {Ancestors(G_edges, e[2]) : e \in isolating_edges}
\* nodes of the subgraph H
SplitNodes(parent_node, isolating_edges) ==
    (Descendants(G_edges, parent_node)
        \cap UNION {Ancestors(G_edges, e[2]) : e \in isolating_edges}) \cup {parent_node}

\* H.nodes iterates the node set when it is less than half of G, else G
SplitNodeOrders(H) ==
    IF 2 * Cardinality(H) < Cardinality(G_nodes) THEN Perms(H)
    ELSE {p \in Perms(H) : \A i, j \in 1..Cardinality(H) : i < j => p[i] < p[j]}

\* variant: the copy of a node is looked up by the rank of the node in H
CopyByRank(H_order, n) == Len(node) + Cardinality({m \in Range(H_order) : m <= n})
\* _node_copies[n]
CopyOf(H_order, n) == Len(node) + (CHOOSE i \in 1..Len(H_order) : H_order[i] = n)

\* variant: the isolating edges are added on the copies, the old ones stay
AddWithoutRemoving(E, i_edges, H_order) ==
    GraphAddEdges(E, [i \in 1..Len(i_edges) |->
                         <<CopyOf(H_order, i_edges[i][1]), i_edges[i][2], i_edges[i][3]>>])
\* the loop `for edge in isolating_edges`
RECURSIVE Rewire(_, _, _)
Rewire(E, i_edges, H_order) ==
    IF Len(i_edges) = 0 THEN E
    ELSE LET edge == Head(i_edges)
         IN Let(GraphAddEdge(GraphRemoveEdge(E, edge),
                             <<CopyOf(H_order, edge[1]), edge[2], edge[3]>>),
                LAMBDA nE : Rewire(nE, Tail(i_edges), H_order))

perform_split(H_order, h_edges, b_edges, i_edges, context, obj) ==
    LET copies == [i \in 1..Len(H_order) |-> GraphNode(node[H_order[i]].recipe, context)]
        inner == [i \in 1..Len(h_edges) |->
                     <<CopyOf(H_order, h_edges[i][1]), CopyOf(H_order, h_edges[i][2]), h_edges[i][3]>>]
        inward == [i \in 1..Len(b_edges) |->
                     <<b_edges[i][1], CopyOf(H_order, b_edges[i][2]), b_edges[i][3]>>]
    IN [node |-> node \o copies,
        context_obj |-> context_obj \o [i \in 1..Len(H_order) |-> obj],
        G_nodes |-> G_nodes \cup {Len(node) + i : i \in 1..Len(H_order)},
        G_edges |-> Rewire(GraphAddEdges(GraphAddEdges(G_edges, inner), inward), i_edges, H_order)]

\* the two split branches of satisfy_dependency: compute_isolating_edge,
\* perform_split, then add_edge of the child (the reused node, or a new node
\* when reuse = 0) onto the copy of the parent
SplitAndAttach(parent_node, contract, context, obj, curr_child, reuse, picked_recipe) ==
    \E iso \in {compute_isolating_edge(context, parent_node, curr_child)} :
    \E H \in {SplitNodes(parent_node, iso.picked_edges)} :
    LET curr_child_edge == <<curr_child, parent_node, contract>>
    IN IF iso.matching_paths # {} THEN Fail("NoIsolatingEdge")
       ELSE IF \E e \in iso.picked_edges : e[1] \notin H THEN Fail("KeyError")
       ELSE \E H_order \in SplitNodeOrders(H),
               h_edges \in Perms({e \in Range(G_edges) : e[1] \in H /\ e[2] \in H}),
               b_edges \in Perms({e \in Range(G_edges) : e[1] \notin H /\ e[2] \in H}
                                    \ {curr_child_edge}),
               i_edges \in Perms(iso.picked_edges) :
              \E sp \in {perform_split(H_order, h_edges, b_edges, i_edges, context, obj)} :
              LET new_parent == CopyOf(H_order, parent_node)
              IN IF reuse # 0
                 THEN add_edge(sp.node, sp.context_obj, sp.G_nodes, sp.G_edges, reuse, new_parent,
                               contract)
                 ELSE add_edge(Append(sp.node, GraphNode(picked_recipe.recipe,
                                                         recipe_to_context[picked_recipe.recipe])),
                               Append(sp.context_obj, RegistrySet(picked_recipe.recipe)),
                               sp.G_nodes, sp.G_edges, Len(sp.node) + 1, new_parent, contract)

\* run(): one iteration of the for loop = _PlanningAlgorithm.satisfy_dependency
SatisfyDependency ==
    /\ pc = "deps"
    /\ LET parent_node == ParentOf(parent_path)
           contract == parse_dependencies[node[parent_node].recipe][dep_idx]
       IN \E picked_recipe \in {pick_recipe(contract, parent_path)} :
          IF picked_recipe.kind = "ambiguous" THEN Fail("AmbiguousRecipe")
          ELSE IF picked_recipe.kind = "none" THEN Fail("MissingRecipe")
          ELSE \E reuse_node \in {pick_existing_node(picked_recipe, parent_path)},
                  curr_child \in {curr_child_node(parent_node, contract)} :
                  IF curr_child = 0
                  THEN IF reuse_node # 0
                       THEN add_edge(node, context_obj, G_nodes, G_edges, reuse_node, parent_node,
                                     contract)
                       ELSE add_edge(Append(node, GraphNode(picked_recipe.recipe,
                                                            recipe_to_context[picked_recipe.recipe])),
                                     Append(context_obj, RegistrySet(picked_recipe.recipe)),
                                     G_nodes, G_edges, Len(node) + 1, parent_node, contract)
                  ELSE \E curr_fitness \in {compute_fitness(node[curr_child].context, parent_path)} :
                          IF reuse_node # 0
                             /\ FitGT(compute_fitness(node[reuse_node].context, parent_path), curr_fitness)
                          THEN SplitAndAttach(parent_node, contract, node[reuse_node].context,
                                              context_obj[reuse_node], curr_child, reuse_node, picked_recipe)
                          ELSE IF FitGT(picked_recipe.fitness, curr_fitness)
                          THEN SplitAndAttach(parent_node, contract,
                                              recipe_to_context[picked_recipe.recipe],
                                              RegistrySet(picked_recipe.recipe),
                                              curr_child, 0, picked_recipe)
                          ELSE use_edge(node, context_obj, G_nodes, G_edges, curr_child, parent_node, contract)
    /\ UNCHANGED <<contract_to_recipes, recipe_to_context>>
    /\ UNCHANGED <<execVars, scoreVars, add_calls>>

\* nodes kept by the final pruning of run()
\* variant: the pruning keeps the ancestors of the target but not the target
KeepAncestorsOnly == Ancestors(G_edges, target_node)
\* variant: the pruning step keeps every node
KeepEverything == G_nodes
Keep == Ancestors(G_edges, target_node) \cup {target_node}

\* run(): the queue is empty; prune and return G
Prune ==
    /\ pc = "queue"
    /\ queue = <<>>
    /\ G_nodes' = G_nodes \cap Keep
    /\ G_edges' = SelectSeq(G_edges, LAMBDA e : e[1] \in Keep /\ e[2] \in Keep)
    /\ pc' = "pruned"
    /\ UNCHANGED <<contract_to_recipes, recipe_to_context, error, node, target_node, queue,
                   parent_path, dep_idx, context_obj, plan_calls>>
    /\ UNCHANGED <<execVars, scoreVars, add_calls>>

\* the assertions of Plan.__init__
\* variant: Plan.__init__ only rejects self-loops
PlanHasNoSelfLoop == \A e \in Range(G_edges) : e[1] # e[2]
PlanIsAcyclic == is_directed_acyclic_graph(G_edges)
PlanTargetNodes == {n \in G_nodes : OutDegree(G_edges, n) = 0}

\* Planner.plan(): `return Plan(G, ...)` -> Plan.__init__
MakePlan ==
    /\ pc = "pruned"
    /\ IF PlanIsAcyclic /\ Cardinality(PlanTargetNodes) = 1
       THEN /\ pc' = "returned"
            /\ plan_calls' = Append(plan_calls, PlanCall(None, node, context_obj, G_nodes, G_edges))
            /\ UNCHANGED error
       ELSE /\ pc' = "failed"
            /\ error' = "AssertionError"
            /\ plan_calls' = Append(plan_calls,
                                    PlanCall("AssertionError", node, context_obj, G_nodes, G_edges))
    /\ UNCHANGED <<contract_to_recipes, recipe_to_context, node, G_nodes, G_edges, target_node,
                   queue, parent_path, dep_idx, context_obj>>
    /\ UNCHANGED <<execVars, scoreVars, add_calls>>

Next ==
    \/ \E call \in AddCalls : Add(call[1], call[2], call[3]) /\ UNCHANGED add_calls
    \/ \E asset \in PlanTargets : Plan(asset, None)
    \/ Dequeue
    \/ SatisfyDependency
    \/ Prune
    \/ MakePlan

Spec == Init /\ [][Next]_vars

(***************************************************************************)
(* A Planner that is used again after plan() has returned or raised: more  *)
(* add() calls and further plan() calls on the same registry.              *)
(***************************************************************************)
\* Bound on the number of plan() calls made on one Planner
MaxPlanCalls == 2

\* The add() calls and plan() targets of a Planner that is used again
ReplanAddCalls ==
    { <<"RT", None, Path(<<>>)>>, <<"RTac", None, Path(<<>>)>>, <<"RA", None, Path(<<>>)>>,
      <<"RAd", None, Path(<<>>)>>, <<"RBc", None, Path(<<>>)>>, <<"RC", None, Path(<<>>)>>,
      <<"RD", None, Path(<<>>)>>, <<"RDa", None, Path(<<"A">>)>> }
ReplanTargets == {"T", "A"}

\* plan() is over: its caller goes on; the _PlanningAlgorithm object is gone
ReturnToCaller ==
    /\ pc \in {"returned", "failed"}
    /\ Len(plan_calls) < MaxPlanCalls
    /\ pc' = "planner"
    /\ error' = None
    /\ node' = <<>>
    /\ context_obj' = <<>>
    /\ G_nodes' = {}
    /\ G_edges' = <<>>
    /\ target_node' = 0
    /\ queue' = <<>>
    /\ parent_path' = <<>>
    /\ dep_idx' = 0
    /\ UNCHANGED <<contract_to_recipes, recipe_to_context, plan_calls>>
    /\ UNCHANGED <<execVars, scoreVars, add_calls>>

ReplanNext ==
    \/ \E call \in ReplanAddCalls : Add(call[1], call[2], call[3]) /\ UNCHANGED add_calls
    \/ \E asset \in ReplanTargets : Plan(asset, None)
    \/ Dequeue
    \/ SatisfyDependency
    \/ Prune
    \/ MakePlan
    \/ ReturnToCaller

ReplanSpec == Init /\ [][ReplanNext]_vars

(***************************************************************************)
(* A registry with eight assets in a chain, each recipe needing several of *)
(* the assets below it: the product of RDx reaches the target on fourteen  *)
(* simple paths, and REx is registered for the paths through B.            *)
(***************************************************************************)
GreedyAddCalls ==
    { <<"RTafgb", None, Path(<<>>)>>, <<"RG", None, Path(<<>>)>>, <<"RFabc", None, Path(<<>>)>>,
      <<"RAbd", None, Path(<<>>)>>, <<"RB", None, Path(<<>>)>>, <<"RC", None, Path(<<>>)>>,
      <<"RDx", None, Path(<<>>)>>, <<"RE", None, Path(<<>>)>>, <<"REx", None, Path(<<"B">>)>> }

GreedyNext ==
    \/ \E call \in GreedyAddCalls : Add(call[1], call[2], call[3]) /\ UNCHANGED add_calls
    \/ Plan("T", None)
    \/ Dequeue
    \/ SatisfyDependency
    \/ Prune
    \/ MakePlan

GreedySpec == Init /\ [][GreedyNext]_vars

(***************************************************************************)
(* Registries whose plans need splits of several kinds: a parent whose     *)
(* product reaches the target on several paths, a recipe that depends on   *)
(* the asset it makes, and a context no edge can isolate.                  *)
(***************************************************************************)
SplitAddCalls ==
    { <<"RTcad", None, Path(<<>>)>>, <<"RT", None, Path(<<>>)>>, <<"RA", None, Path(<<>>)>>,
      <<"RTac", None, Path(<<>>)>>, <<"REx", None, Path(<<"A">>)>>,
      <<"RAc", None, Path(<<>>)>>, <<"RAd", None, Path(<<>>)>>, <<"RB", None, Path(<<>>)>>,
      <<"RC", None, Path(<<>>)>>, <<"RDx", None, Path(<<>>)>>, <<"RDed", None, Path(<<>>)>>,
      <<"RE", None, Path(<<>>)>>, <<"REx", None, Path(<<"D", "C">>)>>,
      <<"REx", None, Path(<<"C", "A">>)>> }
SplitTargets == {"T", "A"}

SplitNext ==
    \/ \E call \in SplitAddCalls : Add(call[1], call[2], call[3]) /\ UNCHANGED add_calls
    \/ \E asset \in SplitTargets : Plan(asset, None)
    \/ Dequeue
    \/ SatisfyDependency
    \/ Prune
    \/ MakePlan

SplitSpec == Init /\ [][SplitNext]_vars

(***************************************************************************)
(* The registry on its own: a caller makes add() calls with recipe classes *)
(* and bundles, keys, and contexts that are Python values of any kind.     *)
(***************************************************************************)
\* Bound on the number of add() calls
MaxAddCalls == 2

\* The recipe classes, keys and bundles the caller passes
RegistryRecipes == {"RA", "RD"}
RegistryKeys == {None, "k"}
RegistryBundles == {[recipes |-> {<<"RA", None>>, <<"RD", "m">>}]}

\* The values the caller passes as a context
RegistryContexts ==
    { PyTuple(<<>>),
      PyAsset("A"),
      PySet({PyAsset("A"), PyAsset("B")}),
      PyTuple(<<PyAsset("A"), PyStr("k")>>),
      PyTuple(<<PySet({PyAsset("A"), PyAsset("B")}), PySet({PyStr("k"), PyNone})>>),
      PyList(<<PyAsset("A"), PyTuple(<<PyAsset("B"), PyNone>>)>>),
      PyTuple(<<PyAsset("A"), PyAsset("B")>>),
      PyInt(5),
      PyNone,
      PyStr("ab"),
      PyList(<<PyList(<<PyAsset("A")>>)>>),
      PyTuple(<<PyAsset("A"), PyInt(5)>>),
      PySet({}),
      PySet({PyTuple(<<PyAsset("A"), PyStr("k")>>), PyTuple(<<PyAsset("B"), PyStr("k")>>)}) }

\* the caller's record of a call
Called(call) == Len(add_calls) < MaxAddCalls /\ add_calls' = Append(add_calls, call)

RegistryNext ==
    \/ \E recipe \in RegistryRecipes, key \in RegistryKeys, context \in RegistryContexts :
          /\ Add(recipe, key, context)
          /\ Called([recipe |-> recipe, key |-> key, context |-> context])
    \/ \E bundle \in RegistryBundles, key \in RegistryKeys, context \in RegistryContexts :
          /\ AddBundle(bundle, key, context)
          /\ Called([bundle |-> bundle, key |-> key, context |-> context])

RegistrySpec == Init /\ [][RegistryNext]_vars

\* Once plan() is called, _PlanningAlgorithm.run() and the construction of
\* the Plan run to their end: a step of theirs that can be taken is taken.
\* Calls of add() and plan() are up to the caller.
PlanStep == Dequeue \/ SatisfyDependency \/ Prune \/ MakePlan
FairSpec == Spec /\ WF_vars(PlanStep)

----------------------------------------------------------------------------
(***************************************************************************)
(* Plan executor (plan/execution.py, Plan.run in plan/plan.py)             *)
(*                                                                         *)
(* The executor is handed the graph of a Plan: a directed acyclic graph    *)
(* with exactly one node of out-degree 0 (Plan.__init__).  Nodes are       *)
(* 1..n; an AssetRecord is identified with the node it was built for.      *)
(* The history of make() calls and releases is kept in `log`:              *)
(*   <<"make", n>>     make() of n's recipe is invoked                     *)
(*   <<"made", n>>     that make() returned                                *)
(*   <<"make raised", n>>  that make() raised                              *)
(*   <<"close", n>>    _build_node closed n's partial ExitStack and        *)
(*                     re-raised                                           *)
(*   <<"record", n>>   n's AssetRecord is registered in node_to_asset      *)
(*   <<"release", n>>  the release of n's AssetRecord begins               *)
(*   <<"release raised", n>>  the release of n's AssetRecord raised        *)
(*   <<"exit", 0>>     the run scope is left (__exit__ is entered)         *)
(***************************************************************************)
MaxExecNodes == 3

\* contracts labelling the edges of a plan graph
ExecContracts == {Contract("A")}

ExecEdgeUniverse(n) ==
    {e \in (1..n) \X (1..n) \X ExecContracts : e[1] < e[2]}

\* graph.in_edges(node, keys=True) / graph.out_degree(n) of a MultiDiGraph
in_edges(g, n) == {e \in g.edges : e[2] = n}
out_degree(g, n) == Cardinality({e \in g.edges : e[1] = n})

\* Plan.__init__: exactly one node has out-degree 0
HasOneTarget(g) == Cardinality({m \in 1..g.n : out_degree(g, m) = 0}) = 1

\* the graphs a Plan can hold (every edge leads to a larger node, so they are acyclic)
PlanGraphs ==
    UNION {{[n |-> n, edges |-> E] : E \in SUBSET ExecEdgeUniverse(n)} : n \in 1..MaxExecNodes}

IndexIn(s, x) == CHOOSE i \in 1..Len(s) : s[i] = x

\* variant: any order of the nodes is taken as build order
AnyNodeOrders(g) == Perms(1..g.n)
\* nx.topological_sort(graph): some order in which every edge leads forward
topological_sort(g) ==
    {s \in Perms(1..g.n) : \A e \in g.edges : IndexIn(s, e[1]) < IndexIn(s, e[2])}

\* variant: the first node of the build order is taken as the target
FirstOfOrder == seq[1]
\* PlanExecution.target
target == seq[Len(seq)]

\* variant: every node starts with a single remaining use
SingleUse(g, n) == 1
\* run(): remaining_uses = {n: out_degree(n)}
InitialUses(g, n) == out_degree(g, n)

\* variant: records are never released during the build
NeverRelease(u, uses) == FALSE
\* run(): the condition under which producer u is released during the build
ShouldRelease(u, uses) == ~defer_cleanup /\ uses[u] = 0 /\ u # target

\* variant: the record is looked up but stays registered
KeepRegistered(held, u) == held
\* node_to_asset.pop(u, None)
Pop(held, u) == held \ {u}

\* variant: cleanup walks the build order forwards
ForwardOrder == seq
\* _cleanup(): `for node in self.seq[::-1]`
CleanupOrder == Reverse(seq)

\* _cleanup(record) for the records of `order` in turn: the events of each
\* release; the release of a record in F raises
RECURSIVE ReleaseEvents(_, _)
ReleaseEvents(order, F) ==
    IF order = <<>> THEN <<>>
    ELSE (IF order[1] \in F
          THEN << <<"release", order[1]>>, <<"release raised", order[1]>> >>
          ELSE << <<"release", order[1]>> >>)
         \o ReleaseEvents(Tail(order), F)

\* variant: an exception of the release leaves the loop
EagerReleaseRaises(st, uses, u, F) ==
    [held |-> Pop(st.held, u),
     uses |-> uses,
     errors |-> st.errors,
     log |-> st.log \o ReleaseEvents(<<u>>, F),
     failed |-> u \in F]
\* run(): pop and release the record of u; an exception of the release
\* (u \in F) is appended to _cleanup_errors
EagerRelease(st, uses, u, F) ==
    [held |-> Pop(st.held, u),
     uses |-> uses,
     errors |-> IF u \in F THEN Append(st.errors, u) ELSE st.errors,
     log |-> st.log \o ReleaseEvents(<<u>>, F),
     failed |-> FALSE]

\* run(): the loop over the in-edges `es` of the node just built, from
\* position i.  st = [held, uses, errors, log, failed]; F = producers whose
\* release raises.  `failed` is the assertion remaining_uses[u] >= 0.
RECURSIVE ReleaseInputs(_, _, _, _)
ReleaseInputs(es, i, st, F) ==
    IF i > Len(es) \/ st.failed THEN st
    ELSE LET u == es[i][1]
             uses == [st.uses EXCEPT ![u] = @ - 1]
         IN IF uses[u] < 0
            THEN [st EXCEPT !.uses = uses, !.failed = TRUE]
            ELSE IF ShouldRelease(u, uses) /\ u \in st.held
                 THEN ReleaseInputs(es, i + 1, EagerRelease(st, uses, u, F), F)
                 ELSE ReleaseInputs(es, i + 1, [st EXCEPT !.uses = uses], F)

\* what _build_node can come to: the two kinds of result make() may return
\* and the points at which it raises
BuildOutcomes ==
    {"Asset", "context manager", "workdir ValueError", "missing dependency",
     "make raises", "__enter__ raises", "invalid type"}

\* the ways an execution is started, and the defer_cleanup argument of the call
Entries == {"Plan.run", "PlanExecution"}
Requests == {"omitted", "False", "True"}

\* Plan.run(self): the signature has no defer_cleanup parameter, so a call
\* that passes one raises TypeError; PlanExecution is constructed without
\* the argument and takes its default
PlanRun(req) == [accepted |-> req = "omitted", defer |-> FALSE]
\* PlanExecution.__init__(..., defer_cleanup: bool = False)
NewPlanExecution(req) == [accepted |-> TRUE, defer |-> req = "True"]

\* The start of an execution for a graph held by a Plan: through Plan.run()
\* or by constructing PlanExecution; then the start of run()
ExecInit ==
    /\ PlannerInit
    /\ ScoreIdle
    /\ entry \in Entries
    /\ requested \in Requests
    /\ LET call == IF entry = "Plan.run" THEN PlanRun(requested)
                   ELSE NewPlanExecution(requested)
       IN IF call.accepted
          THEN /\ \E g \in PlanGraphs :
                    /\ HasOneTarget(g)
                    /\ xgraph = g
                    /\ seq \in topological_sort(g)
                    /\ remaining_uses = [n \in 1..g.n |-> InitialUses(g, n)]
               /\ defer_cleanup = call.defer
               /\ xpc = "run"
               /\ pos = 1
               /\ raised = None
          ELSE /\ xgraph = [n |-> 0, edges |-> {}]
               /\ seq = <<>>
               /\ remaining_uses = <<>>
               /\ defer_cleanup = FALSE
               /\ xpc = "rejected"
               /\ pos = 0
               /\ raised = "TypeError"
    /\ node_to_asset = {}
    /\ cleanup_errors = <<>>
    /\ log = <<>>

\* variant: the error of a build is recorded but the loop goes on to the next node
BuildSwallowed(exc, events) ==
    /\ raised' = exc
    /\ log' = log \o events
    /\ xpc' = IF pos < Len(seq) THEN "run" ELSE "exiting"
    /\ pos' = pos + 1
    /\ UNCHANGED <<node_to_asset, remaining_uses, cleanup_errors>>
\* the build raised exc after the events `events`; the error leaves the run scope
BuildRaises(exc, events) ==
    /\ raised' = exc
    /\ log' = log \o events
    /\ xpc' = "exiting"
    /\ UNCHANGED <<pos, node_to_asset, remaining_uses, cleanup_errors>>

\* run(): one iteration of `for node in self.seq`: _build_node, registration
\* of the record, and the loop over the in-edges with the eager releases
BuildNode ==
    /\ xpc = "run"
    /\ pos <= Len(seq)
    /\ LET n == seq[pos] IN
       \E outcome \in BuildOutcomes :
          IF outcome = "workdir ValueError"
          THEN BuildRaises("ValueError", <<>>)
          ELSE IF \E e \in in_edges(xgraph, n) : e[1] \notin node_to_asset
          THEN BuildRaises("KeyError", << <<"close", n>> >>)
          ELSE IF outcome = "missing dependency"
          THEN BuildRaises("KeyError", << <<"close", n>> >>)
          ELSE IF outcome = "make raises"
          THEN BuildRaises("RuntimeError",
                           << <<"make", n>>, <<"make raised", n>>, <<"close", n>> >>)
          ELSE IF outcome = "__enter__ raises"
          THEN BuildRaises("RuntimeError",
                           << <<"make", n>>, <<"made", n>>, <<"close", n>> >>)
          ELSE IF outcome = "invalid type"
          THEN BuildRaises("TypeError",
                           << <<"make", n>>, <<"made", n>>, <<"close", n>> >>)
          ELSE \E es \in Perms(in_edges(xgraph, n)) :
               \E F \in SUBSET {e[1] : e \in in_edges(xgraph, n)} :
                 LET st == ReleaseInputs(es, 1,
                               [held |-> node_to_asset \cup {n},
                                uses |-> remaining_uses,
                                errors |-> cleanup_errors,
                                log |-> log \o << <<"make", n>>, <<"made", n>>, <<"record", n>> >>,
                                failed |-> FALSE], F)
                 IN /\ node_to_asset' = st.held
                    /\ remaining_uses' = st.uses
                    /\ cleanup_errors' = st.errors
                    /\ log' = st.log
                    /\ IF st.failed
                       THEN raised' = "AssertionError" /\ xpc' = "exiting" /\ pos' = pos
                       ELSE IF pos < Len(seq)
                       THEN UNCHANGED raised /\ xpc' = "run" /\ pos' = pos + 1
                       ELSE IF target \in st.held
                       THEN UNCHANGED raised /\ xpc' = "yielded" /\ pos' = pos + 1
                       ELSE raised' = "KeyError" /\ xpc' = "exiting" /\ pos' = pos + 1
    /\ UNCHANGED <<xgraph, seq, defer_cleanup, entry, requested>>
    /\ UNCHANGED <<planVars, scoreVars, add_calls>>

\* Plan.run(): `yield record.asset`; the caller's block ends normally or raises
OuterScope ==
    /\ xpc = "yielded"
    /\ \E exc \in {None, "OuterError"} : raised' = exc
    /\ xpc' = "exiting"
    /\ UNCHANGED <<xgraph, seq, defer_cleanup, entry, requested, pos, node_to_asset, remaining_uses,
                   cleanup_errors, log>>
    /\ UNCHANGED <<planVars, scoreVars, add_calls>>

\* variant: a failure of the cleanup is raised whatever error is in flight
CleanupErrorFirst(exc, errors, left) ==
    IF left # {} THEN "AssertionError"
    ELSE IF errors # <<>> THEN "ExceptionGroup"
    ELSE exc
\* __exit__: the error that leaves the run scope, given the error exc in
\* flight, the collected release errors and the records _cleanup left behind
ExitError(exc, errors, left) ==
    IF exc # None THEN exc
    ELSE IF left # {} THEN "AssertionError"
    ELSE IF errors # <<>> THEN "ExceptionGroup"
    ELSE None

\* PlanExecution.__exit__ -> _cleanup: every record still registered is
\* popped and released; F = records whose release raises
Exit ==
    /\ xpc = "exiting"
    /\ \E F \in SUBSET node_to_asset :
        LET order == SelectSeq(CleanupOrder, LAMBDA n : n \in node_to_asset)
            errors == cleanup_errors \o SelectSeq(order, LAMBDA n : n \in F)
            left == node_to_asset \ Range(order)
        IN /\ log' = log \o << <<"exit", 0>> >> \o ReleaseEvents(order, F)
           /\ cleanup_errors' = errors
           /\ node_to_asset' = left
           /\ raised' = ExitError(raised, errors, left)
    /\ xpc' = "exited"
    /\ UNCHANGED <<xgraph, seq, defer_cleanup, entry, requested, pos, remaining_uses>>
    /\ UNCHANGED <<planVars, scoreVars, add_calls>>

ExecNext ==
    \/ BuildNode
    \/ OuterScope
    \/ Exit

ExecSpec == ExecInit /\ [][ExecNext]_vars


----------------------------------------------------------------------------
(***************************************************************************)
(* The scorer called on its own: strict_order_match_score(context,         *)
(* edge_path_keys) for every pair of sequences of contracts up to a        *)
(* bounded length.                                                         *)
(***************************************************************************)
\* Bound on the length of both arguments
MaxScoreLen == 4

\* The contracts the arguments are made of
ScoreContracts == {Contract("A"), Contract("B"), Contract("C")}

\* All sequences over S of length at most n
SeqsUpTo(S, n) == UNION {[1..k -> S] : k \in 0..n}

\* No value returned yet
NoScore == <<>>

ScoreInit ==
    /\ PlannerInit
    /\ ExecIdle
    /\ score_call \in [context : SeqsUpTo(ScoreContracts, MaxScoreLen),
                       edge_path_keys : SeqsUpTo(ScoreContracts, MaxScoreLen)]
    /\ score_ret = NoScore
    /\ score_win = NoWindow

\* the calls return: strict_order_match_score(context, edge_path_keys) and
\* best_subsequence_window(context, edge_path_keys)
Score ==
    /\ score_ret = NoScore
    /\ score_ret' = strict_order_match_score(score_call.context, score_call.edge_path_keys)
    /\ score_win' = best_subsequence_window(score_call.context, score_call.edge_path_keys)
    /\ UNCHANGED score_call
    /\ UNCHANGED <<planVars, execVars, add_calls>>

ScoreSpec == ScoreInit /\ [][Score]_vars


----------------------------------------------------------------------------
(***************************************************************************)
(* Properties of the planner                                               *)
(***************************************************************************)

\* plan() has returned a Plan
Returned == pc = "returned"

\* the contracts of the in-edges of n, as a bag (contract -> multiplicity)
InContractCount(n, c) == Cardinality({e \in Range(G_edges) : e[2] = n /\ e[3] = c})
DepContractCount(r, c) ==
    Cardinality({i \in 1..Len(parse_dependencies[r]) : parse_dependencies[r][i] = c})
AllContracts == {Contract(Makes[r]) : r \in RecipeClasses}

\* fitness of a registered recipe on a path of the graph
RecipeFitness(r, path) == compute_fitness(recipe_to_context[r], path)

\* u's recipe is a best fit for the edge (u, v, c) on the path from v to the sink
BestFitOn(e, path) ==
    \A r \in contract_to_recipes[e[3]] :
        r # node[e[1]].recipe =>
            ~FitGT(RecipeFitness(r, path), RecipeFitness(node[e[1]].recipe, path))

\* C1: in a graph returned by plan(), for every edge (u, v, c) no other
\* recipe registered for c has strictly higher fitness than u.recipe on any
\* simple path from v to the sink.
C1_BestFit ==
    Returned =>
        \A e \in Range(G_edges) :
            LET paths == all_simple_edge_paths(G_edges, e[2], target_node)
            IN \A i \in 1..Len(paths) : BestFitOn(e, paths[i])

\* C2: in a graph returned by plan(), the bag of contracts on the in-edges
\* of every node equals the bag of contracts of its recipe's dependencies.
C2_Coverage ==
    Returned =>
        \A n \in G_nodes : \A c \in AllContracts :
            InContractCount(n, c) = DepContractCount(node[n].recipe, c)

\* some node lies on a directed cycle of G
OnCycle(n) == n \in ForwardClosure(G_edges, {e[2] : e \in {x \in Range(G_edges) : x[1] = n}})

\* C3: a graph returned by plan() is acyclic.
C3_Acyclic == Returned => \A n \in G_nodes : ~OnCycle(n)

\* a plan with a shared node and at least four nodes was returned
C3_Witness ==
    /\ Returned
    /\ Cardinality(G_nodes) >= 4
    /\ \E n \in G_nodes : Cardinality({e \in Range(G_edges) : e[1] = n}) >= 2

\* the recipe plan() chose for the target contract
IsTargetRecipe(r, asset) ==
    /\ Contract(asset) \in DOMAIN contract_to_recipes
    /\ r \in contract_to_recipes[Contract(asset)]
    /\ <<>> \in recipe_to_context[r]

\* C4: in a graph returned by plan(), exactly one node has out-degree 0; it
\* is the target node, and it runs the target recipe.
C4_UniqueSink ==
    Returned =>
        /\ {n \in G_nodes : ~\E e \in Range(G_edges) : e[1] = n} = {target_node}
        /\ IsTargetRecipe(node[target_node].recipe, Makes[node[target_node].recipe])
        /\ Makes[node[target_node].recipe] \in PlanTargets

\* a plan whose target has two producers, one of them a copy made by a split
C4_Witness ==
    /\ Returned
    /\ Cardinality({e \in Range(G_edges) : e[2] = target_node}) = 2
    /\ Len(node) > Cardinality({node[i].recipe : i \in 1..Len(node)})

\* n reaches the target node along edges of G
ReachesTarget(n) == n = target_node \/ target_node \in ForwardClosure(G_edges, {n})

\* C5: once run() has pruned the graph (and so in every returned plan),
\* every node of the graph reaches the target node, and every edge joins
\* nodes of the graph.
C5_AllReachSink ==
    pc \in {"pruned", "returned"} =>
        /\ \A n \in G_nodes : ReachesTarget(n)
        /\ \A e \in Range(G_edges) : e[1] \in G_nodes /\ e[2] \in G_nodes

\* the pruning removed at least one node that had been created
C5_Witness ==
    /\ pc = "pruned"
    /\ \E i \in 1..Len(node) : i \notin G_nodes

----------------------------------------------------------------------------
(***************************************************************************)
(* Properties of the executor                                              *)
(***************************************************************************)
Happened(ev) == \E i \in 1..Len(log) : log[i] = ev
Precedes(e1, e2) == \E i, j \in 1..Len(log) : i < j /\ log[i] = e1 /\ log[j] = e2
Count(ev) == Cardinality({i \in 1..Len(log) : log[i] = ev})
ScopeExit == <<"exit", 0>>

XNodes == 1..xgraph.n
Consumers(u) == {e[2] : e \in {x \in xgraph.edges : x[1] = u}}

RECURSIVE Upstream(_)
Upstream(front) ==
    LET more == {e[1] : e \in {x \in xgraph.edges : x[2] \in front}} \ front
    IN IF more = {} THEN front ELSE Upstream(front \cup more)
TransitiveDependencies(v) == Upstream({v}) \ {v}

\* the nodes in the order their records were registered / their release began
BuildOrder == SelectSeq(log, LAMBDA ev : ev[1] = "record")
ReleaseOrder == SelectSeq(log, LAMBDA ev : ev[1] = "release")

\* C6: for every edge (u, v, c), and so for every transitive dependency u
\* of v, u's make() has completed before v's make() begins; as long as no
\* error has occurred the node next in build order has all its producers
\* made, and when run() returns every node has been made exactly once.
C6_BuildOrder ==
    /\ \A v \in XNodes :
          Happened(<<"make", v>>) =>
              \A u \in TransitiveDependencies(v) : Precedes(<<"made", u>>, <<"make", v>>)
    /\ (xpc = "run" /\ pos <= Len(seq)) =>
          \A e \in in_edges(xgraph, seq[pos]) : Happened(<<"made", e[1]>>)
    /\ xpc = "yielded" =>
          \A v \in XNodes : Count(<<"make", v>>) = 1 /\ Count(<<"made", v>>) = 1

\* run() returned for a graph in which 1 feeds 2 and 3, and 2 feeds 3
C6_Witness ==
    /\ xpc = "yielded"
    /\ xgraph.n = 3
    /\ {<<e[1], e[2]>> : e \in xgraph.edges} = {<<1, 2>>, <<1, 3>>, <<2, 3>>}

\* C7: a record is released at most once and only after it was registered;
\* once the run scope has been left, on whatever exit path, every record
\* that was registered has been released exactly once and none is held.
C7_ReleasedExactlyOnce ==
    /\ \A n \in XNodes :
          /\ Count(<<"release", n>>) <= 1
          /\ Happened(<<"release", n>>) => Precedes(<<"record", n>>, <<"release", n>>)
          /\ n \in node_to_asset <=>
                (Happened(<<"record", n>>) /\ ~Happened(<<"release", n>>))
    /\ xpc = "exited" =>
          /\ node_to_asset = {}
          /\ \A n \in XNodes : Happened(<<"record", n>>) => Count(<<"release", n>>) = 1

\* an eager run left by an error of the outer scope, in which one record was
\* released during the build, another at scope exit, and a release raised
C7_Witness ==
    /\ xpc = "exited"
    /\ raised = "OuterError"
    /\ cleanup_errors # <<>>
    /\ \E n, m \in XNodes :
          Precedes(<<"release", n>>, ScopeExit) /\ Precedes(ScopeExit, <<"release", m>>)

\* C8: in eager mode a release that happens during the build comes after
\* every consumer of the producer has been built; whenever make() of a
\* node is invoked, every producer on its in-edges has been built and not
\* released; and no remaining-use counter is negative.
C8_ReleaseAfterLastConsumer ==
    ~defer_cleanup =>
        /\ \A i \in 1..Len(log) :
              (log[i][1] = "release" /\ ~\E k \in 1..i : log[k] = ScopeExit) =>
                  \A v \in Consumers(log[i][2]) :
                      \E j \in 1..i : log[j] = <<"record", v>>
        /\ \A j \in 1..Len(log) :
              log[j][1] = "make" =>
                  \A e \in in_edges(xgraph, log[j][2]) :
                      /\ \E i \in 1..j : log[i] = <<"record", e[1]>>
                      /\ ~\E i \in 1..j : log[i] = <<"release", e[1]>>
        /\ \A n \in DOMAIN remaining_uses : remaining_uses[n] >= 0

\* eager mode: a producer with two consumers has been released during the build
C8_Witness ==
    /\ ~defer_cleanup
    /\ xpc = "yielded"
    /\ \E u \in XNodes :
          /\ Cardinality(Consumers(u)) = 2
          /\ Happened(<<"release", u>>)

\* C9: in eager mode, when make() of a node begins, every producer other
\* than the target whose consumers have all been built has had its release
\* begun; the same holds whenever the build loop is between two nodes and
\* when run() returns.
C9_EagerRelease ==
    ~defer_cleanup =>
        /\ \A j \in 1..Len(log) :
              log[j][1] = "make" =>
                  \A u \in XNodes \ {target} :
                      (\A v \in Consumers(u) : \E i \in 1..j : log[i] = <<"record", v>>)
                          => \E i \in 1..j : log[i] = <<"release", u>>
        /\ xpc \in {"run", "yielded"} =>
              \A u \in XNodes \ {target} :
                  (\A v \in Consumers(u) : Happened(<<"record", v>>))
                      => Happened(<<"release", u>>)

\* eager mode: a producer was released and a later node's make() began after it
C9_Witness ==
    /\ ~defer_cleanup
    /\ \E u, w \in XNodes :
          /\ u # target
          /\ \A v \in Consumers(u) : Precedes(<<"record", v>>, <<"make", w>>)
          /\ Precedes(<<"release", u>>, <<"make", w>>)

\* C10: in deferred mode no release begins before the run scope is left;
\* when a run that built every node and was not left by an error has
\* exited, the releases happened in exactly the reverse of build order.
C10_DeferredReverseOrder ==
    defer_cleanup =>
        /\ \A i \in 1..Len(log) :
              log[i][1] = "release" => \E k \in 1..i : log[k] = ScopeExit
        /\ (xpc = "exited" /\ raised \in {None, "ExceptionGroup"}) =>
              /\ Len(BuildOrder) = xgraph.n
              /\ Len(ReleaseOrder) = Len(BuildOrder)
              /\ \A i \in 1..Len(ReleaseOrder) :
                    ReleaseOrder[i][2] = BuildOrder[Len(BuildOrder) + 1 - i][2]

\* a deferred run of at least three nodes ended without error
C10_Witness ==
    /\ defer_cleanup
    /\ xpc = "exited"
    /\ raised = None
    /\ xgraph.n >= 3
    /\ Len(ReleaseOrder) = xgraph.n


\* C11: the node the executor treats as the target (the last node of the
\* build order) is the sink of the plan graph; its record is never released
\* before the run scope is left; and it is held when run() yields.
C11_TargetHeld ==
    xpc \notin {"idle", "rejected"} =>
        /\ out_degree(xgraph, target) = 0
        /\ \A i \in 1..Len(log) :
              log[i] = <<"release", target>> => \E k \in 1..i : log[k] = ScopeExit
        /\ xpc = "yielded" => target \in node_to_asset

\* eager mode: run() yields for a three-node plan; every producer has been
\* released and only the target's record is held
C11_Witness ==
    /\ ~defer_cleanup
    /\ xpc = "yielded"
    /\ xgraph.n = 3
    /\ node_to_asset = {target}
    /\ Len(ReleaseOrder) = 2


\* position of the scope exit in the log (0 while the scope is active)
ExitIndex == IF Happened(ScopeExit) THEN IndexIn(log, ScopeExit) ELSE 0
\* the releases made by the cleanup at scope exit, in order
ExitReleases == SelectSeq(SubSeq(log, ExitIndex + 1, Len(log)), LAMBDA ev : ev[1] = "release")
\* the records registered and not released when the scope was left, in build order
HeldAtExit ==
    SelectSeq(SubSeq(log, 1, ExitIndex),
              LAMBDA ev : ev[1] = "record" /\ ~Precedes(<<"release", ev[2]>>, ScopeExit))

\* C12: when make() of a node n raises, the error of the run is the
\* RuntimeError that wraps it; n's partial scope is closed and no record is
\* registered for n; no make() is invoked afterwards; and when the scope
\* has been left every record that was still held has been released
\* exactly once, in reverse build order, with the same error propagating.
C12_MakeFailure ==
    \A n \in XNodes :
        Happened(<<"make raised", n>>) =>
            /\ raised = "RuntimeError"
            /\ xpc \in {"exiting", "exited"}
            /\ Precedes(<<"make raised", n>>, <<"close", n>>)
            /\ ~Happened(<<"record", n>>)
            /\ n \notin node_to_asset
            /\ \A i, j \in 1..Len(log) :
                  (log[i] = <<"make raised", n>> /\ i < j) => log[j][1] # "make"
            /\ xpc = "exited" =>
                  /\ node_to_asset = {}
                  /\ Len(ExitReleases) = Len(HeldAtExit)
                  /\ \A i \in 1..Len(ExitReleases) :
                        ExitReleases[i][2] = HeldAtExit[Len(HeldAtExit) + 1 - i][2]

\* make() of the third node raised after two records were built and were
\* still held; both were released at scope exit and one release raised too
C12_Witness ==
    /\ xpc = "exited"
    /\ \E n \in XNodes : Happened(<<"make raised", n>>)
    /\ raised = "RuntimeError"
    /\ Len(HeldAtExit) = 2
    /\ Len(ExitReleases) = 2
    /\ cleanup_errors # <<>>


\* C13: when the run scope is left with an error in flight (from a build or
\* from the outer scope), that same error propagates whether or not
\* releases fail; when it is left normally, the aggregate cleanup error is
\* raised exactly when some release failed; and the aggregate never
\* appears before the scope has been left.
C13_NoMasking ==
    [][ /\ (xpc = "exiting" /\ xpc' = "exited") =>
              /\ raised # None => raised' = raised
              /\ raised = None =>
                    /\ raised' \in {None, "ExceptionGroup"}
                    /\ raised' = "ExceptionGroup" <=> cleanup_errors' # <<>>
        /\ raised' = "ExceptionGroup" => xpc' = "exited"
      ]_vars

\* the scope was left by a build error while a release failed as well
C13_Witness ==
    /\ xpc = "exited"
    /\ raised = "TypeError"
    /\ cleanup_errors # <<>>


\* C14: in eager mode a release that raises during the build does not end
\* the build: the step in which it raised leaves no error in flight,
\* registers the record of the node just built and moves on to the next
\* node, and when run() returns every node has been built.  Every release
\* that raised is in the collected failures, and when the scope is then
\* left without an error in flight the aggregate cleanup error is raised.
C14_EagerFailureCollected ==
    [][ /\ (xpc = "run" /\ \E u \in XNodes :
                Count(<<"release raised", u>>) = 0
                /\ \E i \in 1..Len(log') : log'[i] = <<"release raised", u>>) =>
              /\ ~defer_cleanup
              /\ raised' = None
              /\ xpc' \in {"run", "yielded"}
              /\ pos' = pos + 1
              /\ seq[pos] \in node_to_asset'
        /\ xpc' = "yielded" =>
              \A n \in XNodes : \E i \in 1..Len(log') : log'[i] = <<"record", n>>
        /\ \A i \in 1..Len(log') :
              log'[i][1] = "release raised" => log'[i][2] \in Range(cleanup_errors')
        /\ (xpc = "exiting" /\ xpc' = "exited" /\ raised = None /\ cleanup_errors # <<>>) =>
              raised' = "ExceptionGroup"
      ]_vars

\* a release failed during the build; all three nodes were built all the
\* same, and the aggregate cleanup error left the scope
C14_Witness ==
    /\ ~defer_cleanup
    /\ xpc = "exited"
    /\ raised = "ExceptionGroup"
    /\ Len(BuildOrder) = 3
    /\ \E u \in XNodes : Precedes(<<"release raised", u>>, ScopeExit)


\* C15: a caller of Plan.run selects the cleanup mode: the call is accepted
\* whatever mode is asked for; asked for deferred cleanup, the execution
\* defers and no release begins before the scope is left; with the default
\* the execution is eager.
C15_CleanupModeOption ==
    entry = "Plan.run" =>
        /\ xpc # "rejected"
        /\ requested = "True" =>
              /\ defer_cleanup
              /\ \A i \in 1..Len(log) :
                    log[i][1] = "release" => \E k \in 1..i : log[k] = ScopeExit
        /\ requested \in {"omitted", "False"} => ~defer_cleanup


\* the recipes registered under the contract (asset, None) with the empty
\* path among their contexts
EmptyPathRecipes(asset) ==
    {r \in RecipeClasses :
        /\ Makes[r] = asset
        /\ r \in DOMAIN recipe_to_context
        /\ <<>> \in recipe_to_context[r]}

\* C16: plan(asset, key) fails unless exactly one recipe registered under
\* the contract has the empty path among its contexts: with none it fails,
\* with two or more it fails, and with exactly one the planning starts from
\* a target node that runs that recipe.
C16_ExactlyOneTargetRecipe ==
    [][ \A asset \in PlanTargets :
          Plan(asset, None) =>
             IF Cardinality(EmptyPathRecipes(asset)) = 1
             THEN /\ pc' = "queue"
                  /\ error' = None
                  /\ G_nodes' = {target_node'}
                  /\ node'[target_node'].recipe \in EmptyPathRecipes(asset)
             ELSE /\ pc' = "failed"
                  /\ error' = IF EmptyPathRecipes(asset) = {}
                              THEN "MissingTargetRecipe" ELSE "TooManyTargetRecipes"
      ]_vars

\* plan(D) was refused because RD and RDx are both registered with the
\* empty path
C16_Witness ==
    /\ pc = "failed"
    /\ error = "TooManyTargetRecipes"
    /\ Cardinality(EmptyPathRecipes("D")) = 2
    /\ Cardinality(EmptyPathRecipes("T")) <= 1


\* the dependency contract satisfy_dependency is working on
CurrentDependency == parse_dependencies[node[ParentOf(parent_path)].recipe][dep_idx]
\* the recipes registered for a contract whose fitness on the path is > 0
FitRecipes(contract, path) ==
    IF contract \in DOMAIN contract_to_recipes
    THEN {r \in contract_to_recipes[contract] : FitGT(RecipeFitness(r, path), Zero)}
    ELSE {}
\* those of them no other one beats
TopRecipes(contract, path) ==
    {r \in FitRecipes(contract, path) :
        \A q \in FitRecipes(contract, path) :
            ~FitGT(RecipeFitness(q, path), RecipeFitness(r, path))}

\* C17: satisfying a dependency fails with MissingRecipe exactly when no
\* recipe registered for the contract has fitness > 0 on the planning path
\* (no recipe registered at all included); a failed plan() stays failed and
\* returns no Plan.
C17_MissingRecipe ==
    [][ /\ pc = "deps" =>
              ((FitRecipes(CurrentDependency, parent_path) = {})
                  <=> (pc' = "failed" /\ error' = "MissingRecipe"))
        /\ pc = "failed" => pc' = "failed"
      ]_vars

\* planning failed on a dependency whose contract has a registered recipe,
\* none of them fit on the path
C17_Witness ==
    /\ pc = "failed"
    /\ error = "MissingRecipe"
    /\ CurrentDependency \in DOMAIN contract_to_recipes
    /\ Len(parent_path) >= 1

\* C18: pick_recipe returns the one recipe whose fitness on the path is
\* > 0 and strictly above that of every other recipe registered for the
\* contract, with that fitness; satisfying the dependency fails with
\* AmbiguousRecipe exactly when two or more recipes tie at the maximum.
C18_UniqueBestOrAmbiguous ==
    [][ pc = "deps" =>
          LET top == TopRecipes(CurrentDependency, parent_path)
              picked == pick_recipe(CurrentDependency, parent_path)
          IN /\ Cardinality(top) = 1 =>
                   /\ picked.kind = "pick"
                   /\ picked.recipe \in top
                   /\ picked.fitness = RecipeFitness(picked.recipe, parent_path)
                   /\ \A q \in contract_to_recipes[CurrentDependency] \ top :
                         FitGT(picked.fitness, RecipeFitness(q, parent_path))
             /\ (Cardinality(top) >= 2)
                   <=> (pc' = "failed" /\ error' = "AmbiguousRecipe")
      ]_vars

\* two recipes registered for the contract tie at a fitness > 0 and the
\* planning failed
C18_Witness ==
    /\ pc = "failed"
    /\ error = "AmbiguousRecipe"
    /\ Cardinality(TopRecipes(CurrentDependency, parent_path)) = 2
    /\ Cardinality(contract_to_recipes[CurrentDependency]) = 3


\* C19: a dependency cycle among the selected recipes ends plan() with the
\* Cycle error of use_edge: run() never comes to its end with a cycle in G,
\* so that no Plan is made from, or refused for, a graph with a cycle.
C19_CycleIsCycleError ==
    /\ pc \in {"pruned", "returned"} => \A n \in G_nodes : ~OnCycle(n)
    /\ (pc = "failed" /\ \E n \in G_nodes : OnCycle(n)) => error # "AssertionError"


\* C20: planning terminates: once plan() has started the algorithm, the
\* queue of planning paths becomes empty and run() returns, or an error is
\* raised.
C20_Terminates ==
    (pc \in {"queue", "deps"})
        ~> (pc = "failed" \/ (pc \in {"pruned", "returned"} /\ queue = <<>>))

\* run() came to its end after a split had made copies of nodes and paths
\* of four edges had been on the queue
C20_Witness ==
    /\ pc = "pruned"
    /\ queue = <<>>
    /\ Len(node) > Cardinality(G_nodes)
    /\ \E i, j \in 1..Len(node) : i < j /\ node[i] = node[j]
    /\ Len(G_edges) >= 4


----------------------------------------------------------------------------
(***************************************************************************)
(* Properties of the scorer                                                *)
(***************************************************************************)

\* c is a subsequence of s: its elements occur in s in the same order
IsSubsequence(c, s) ==
    \E at \in SUBSET (1..Len(s)) :
        /\ Cardinality(at) = Len(c)
        /\ \A k \in at : s[k] = c[Cardinality({j \in at : j <= k})]

\* the call of the scorer has returned
Scored == score_ret # NoScore

\* C30: strict_order_match_score(ctx, seq) is 0 if and only if ctx is not a
\* subsequence of seq.
C30_ZeroIffNotSubsequence ==
    Scored => (score_ret = Zero <=> ~IsSubsequence(score_call.context, score_call.edge_path_keys))

\* the scorer returned 0 for a context of two different contracts that both
\* occur in the sequence, in the other order
C30_Witness ==
    /\ Scored
    /\ score_ret = Zero
    /\ Len(score_call.context) = 2
    /\ score_call.context[1] # score_call.context[2]
    /\ Range(score_call.context) \subseteq Range(score_call.edge_path_keys)

\* the scorer returned a positive score for a context matched with a gap
C30_WitnessGap ==
    /\ Scored
    /\ score_ret # Zero
    /\ score_call.context = <<Contract("A"), Contract("C")>>
    /\ score_call.edge_path_keys = <<Contract("A"), Contract("B"), Contract("C")>>


----------------------------------------------------------------------------
(***************************************************************************)
(* Properties of a Planner that plans more than once                       *)
(***************************************************************************)

\* The plan() calls that reached _PlanningAlgorithm.run()
RunCalls == {i \in 1..Len(plan_calls) : plan_calls[i].target_node # 0}

\* The plan() calls that returned a Plan
PlansMade == {i \in 1..Len(plan_calls) : plan_calls[i].error = None}

\* Two plan() calls on the same registry for the same target
SameQuestion(c, d) ==
    /\ c.contract_to_recipes = d.contract_to_recipes
    /\ c.recipe_to_context = d.recipe_to_context
    /\ c.node[c.target_node].recipe = d.node[d.target_node].recipe

\* A graph up to node identity: how many nodes each recipe has, and how
\* many edges there are per (recipe of the tail, recipe of the head, contract)
NodeBag(c) == [r \in RecipeClasses |-> Cardinality({n \in c.G_nodes : c.node[n].recipe = r})]
EdgeLabel(c, e) == <<c.node[e[1]].recipe, c.node[e[2]].recipe, e[3]>>
EdgeBag(c) ==
    [t \in {EdgeLabel(c, e) : e \in Range(c.G_edges)} |->
        Cardinality({e \in Range(c.G_edges) : EdgeLabel(c, e) = t})]

ContextSets(c) == {c.context_obj[n] : n \in c.G_nodes}

\* a step of a plan() call: every step but a call of add()
PlanCallStep == pc # "planner" \/ pc' # "planner"

\* C22: plan() leaves the registry unchanged, and the Plans of two plan()
\* calls on the same Planner share no mutable state.  GraphNode objects and
\* the graph are made anew by every call (a node is an index of the arena
\* of its own call), so what two Plans can share is the set object that is
\* the context of a node: no set object is the context of nodes of both.
C22_IndependentPlans ==
    /\ [][PlanCallStep => UNCHANGED <<contract_to_recipes, recipe_to_context>>]_vars
    /\ [](\A i, j \in PlansMade :
            i # j => ContextSets(plan_calls[i]) \cap ContextSets(plan_calls[j]) = {})


\* the contracts of the planning path, from the parent up to the target
PlanningPath(path) ==
    [i \in 1..Len(path) |-> path[i][3]] \o <<Contract(Makes[node[target_node].recipe])>>

\* the recipes registered for a contract with the empty context only, and
\* those with a non-empty context path that is a subsequence of the path
DefaultRecipes(contract) ==
    IF contract \in DOMAIN contract_to_recipes
    THEN {r \in contract_to_recipes[contract] : recipe_to_context[r] = {<<>>}}
    ELSE {}
SpecificRecipes(contract, path) ==
    IF contract \in DOMAIN contract_to_recipes
    THEN {r \in contract_to_recipes[contract] :
            \E p \in recipe_to_context[r] : p # <<>> /\ IsSubsequence(p, PlanningPath(path))}
    ELSE {}

\* the nodes that provide contract c to node n
Providers(n, c) == {e[1] : e \in {d \in Range(G_edges) : d[2] = n /\ d[3] = c}}

\* C23: an empty context path loses against every non-empty matching
\* context: when a recipe with a matching non-empty context path is
\* registered for the dependency, the recipe picked is not one registered
\* with the empty context only; with RD registered with context () and RDa
\* with context (A), a plan for A made by RAd uses RDa as A's dependency.
C23_SpecificBeatsDefault ==
    /\ (pc = "deps" /\ SpecificRecipes(CurrentDependency, parent_path) # {}) =>
           pick_recipe(CurrentDependency, parent_path).recipe
               \notin DefaultRecipes(CurrentDependency)
    /\ (/\ Returned
        /\ node[target_node].recipe = "RAd"
        /\ {"RD", "RDa"} \subseteq DOMAIN recipe_to_context
        /\ recipe_to_context["RD"] = {<<>>}) =>
           \A n \in Providers(target_node, Contract("D")) : node[n].recipe = "RDa"

\* plan(A) returned a plan in which RDa provides D to the target, with RD
\* registered
C23_Witness ==
    /\ Returned
    /\ node[target_node].recipe = "RAd"
    /\ "RD" \in DOMAIN recipe_to_context
    /\ \E n \in Providers(target_node, Contract("D")) : node[n].recipe = "RDa"

\* RDa is picked over RD for a dependency two edges away from the target
C23_WitnessDeep ==
    /\ pc = "deps"
    /\ Len(parent_path) >= 1
    /\ DefaultRecipes(CurrentDependency) # {}
    /\ SpecificRecipes(CurrentDependency, parent_path) # {}
    /\ pick_recipe(CurrentDependency, parent_path).kind = "pick"


\* every recipe is registered with the empty context only
OnlyEmptyContexts == \A r \in DOMAIN recipe_to_context : recipe_to_context[r] = {<<>>}

\* the nodes of the graph that need what node n makes
NeededBy(n) ==
    {m \in G_nodes : Contract(Makes[node[n].recipe]) \in Range(parse_dependencies[node[m].recipe])}

\* a dependency is satisfied without an error while the graph holds a node
\* of the picked recipe that fits the path at least as well as the recipe
ReusableStep ==
    /\ pc = "deps"
    /\ pc' # "failed"
    /\ pick_recipe(CurrentDependency, parent_path).kind = "pick"
    /\ pick_existing_node(pick_recipe(CurrentDependency, parent_path), parent_path) # 0

\* the child of the edge that the step has just put on the queue
AttachedChild == queue'[Len(queue')][1][1]

\* C24: when the graph already holds a node of the picked recipe whose
\* fitness on the path is at least the picked recipe's, the dependency is
\* satisfied by a node that exists, not by a new one; so with every recipe
\* registered with the empty context only (no split) a returned graph has
\* at most one node per recipe, and a node needed by several consumers is
\* one node with an out-edge to each of them.
C24_Reuse ==
    /\ [][ReusableStep => AttachedChild \in G_nodes]_vars
    /\ []((Returned /\ OnlyEmptyContexts) =>
            /\ \A n, m \in G_nodes : node[n].recipe = node[m].recipe => n = m
            /\ \A n \in G_nodes \ {target_node} :
                   OutDegree(G_edges, n) = Cardinality(NeededBy(n)))

\* a returned graph of recipes with empty contexts in which one node of B
\* has out-degree 2: it provides B to both the node of A and the target
C24_Witness ==
    /\ Returned
    /\ OnlyEmptyContexts
    /\ \E n \in G_nodes :
          /\ Makes[node[n].recipe] = "B"
          /\ OutDegree(G_edges, n) = 2
          /\ Cardinality(NeededBy(n)) = 2


\* the nodes of the graph that make an asset
Makers(asset) == {n \in G_nodes : Makes[node[n].recipe] = asset}

\* the nodes that node n provides something to
Fed(n) == {e[2] : e \in {d \in Range(G_edges) : d[1] = n}}

\* C25: T is made from A and C (RTac), A and C are both made from D (RAd,
\* RC), and D has the recipes RD (context ()) and RDa (context (A)): the
\* planned graph has two nodes of D, the one of RDa feeds only A and the one
\* of RD feeds only C, so that A and C do not share a node of D.
C25_ContextSplitsProducers ==
    (/\ Returned
     /\ node[target_node].recipe = "RTac"
     /\ {"RAd", "RC", "RD", "RDa"} \subseteq DOMAIN recipe_to_context
     /\ recipe_to_context["RD"] = {<<>>}
     /\ recipe_to_context["RDa"] = {<<Contract("A")>>}) =>
        /\ Cardinality(Makers("D")) = 2
        /\ \E a, d \in Makers("D") :
              /\ node[a].recipe = "RDa"
              /\ node[d].recipe = "RD"
              /\ Fed(a) # {} /\ Fed(a) \subseteq Makers("A")
              /\ Fed(d) # {} /\ Fed(d) \subseteq Makers("C")
        /\ \A x \in Makers("A"), y \in Makers("C") :
              Providers(x, Contract("D")) \cap Providers(y, Contract("D")) = {}

\* the plan of T from RTac, RAd, RC, RD and RDa was returned, with one node
\* for A and one for C
C25_Witness ==
    /\ Returned
    /\ node[target_node].recipe = "RTac"
    /\ {"RAd", "RC", "RD", "RDa"} \subseteq DOMAIN recipe_to_context
    /\ Cardinality(Makers("A")) = 1
    /\ Cardinality(Makers("C")) = 1
    /\ Cardinality(G_nodes) = 5


(***************************************************************************)
(* The registry: what add() calls leave in contract_to_recipes and         *)
(* recipe_to_context.                                                      *)
(***************************************************************************)
\* A step that is an add() call, the call, and the recipe classes it is for
AddCallStep == Len(add_calls') = Len(add_calls) + 1
TheCall == add_calls'[Len(add_calls')]
IsBundleCall(call) == "bundle" \in DOMAIN call
RecipesOf(call) ==
    IF IsBundleCall(call) THEN {member[1] : member \in call.bundle.recipes} ELSE {call.recipe}

\* The recipes registered under a contract, and the contracts a recipe is
\* registered under
RegisteredUnder(c2r, contract) == IF contract \in DOMAIN c2r THEN c2r[contract] ELSE {}
ContractsOf(c2r, recipe) == {contract \in DOMAIN c2r : recipe \in c2r[contract]}

\* C26: add(bundle, key, context) registers every member recipe of the
\* bundle individually; the outer key replaces only the None keys of the
\* members: a member that carries its own key is registered under its own
\* key.
C26_BundleKeys ==
    [][AddCallStep /\ IsBundleCall(TheCall) /\ error' = None
       => \A member \in TheCall.bundle.recipes :
             LET own == member[2]
                 contract == <<Makes[member[1]], IF own = None THEN TheCall.key ELSE own>>
             IN /\ member[1] \in DOMAIN recipe_to_context'
                /\ ContractsOf(contract_to_recipes', member[1])
                      = ContractsOf(contract_to_recipes, member[1]) \cup {contract}]_vars

\* C27: after any sequence of add() calls, every registered recipe is in
\* contract_to_recipes under exactly one (produces, key) pair.
C27_OneContractPerRecipe ==
    \A recipe \in DOMAIN recipe_to_context :
        Cardinality(ContractsOf(contract_to_recipes, recipe)) = 1


\* The context specs: a contract def is an asset class, a set of asset
\* classes, or a 2-tuple (asset-or-set, key-or-set-or-None); a context spec
\* is a contract def or a finite sequence of contract defs
IsAssets(obj) == is_asset_class(obj) \/ IsAssetSet(obj)
IsKeys(obj) == IsStrOrNone(obj) \/ IsKeySet(obj)
IsContractDef(obj) ==
    \/ IsAssets(obj)
    \/ IsTuple(obj) /\ Len(obj.tuple) = 2 /\ IsAssets(obj.tuple[1]) /\ IsKeys(obj.tuple[2])
IsSequence(obj) == DOMAIN obj \in {{"tuple"}, {"list"}}
ElemsOf(obj) == IF DOMAIN obj = {"tuple"} THEN obj.tuple ELSE obj.list
IsContextSpec(obj) ==
    \/ IsContractDef(obj)
    \/ IsSequence(obj) /\ \A i \in 1..Len(ElemsOf(obj)) : IsContractDef(ElemsOf(obj)[i])

\* The contracts a contract def denotes (assets x keys), and the context
\* paths a context spec denotes
AssetNames(obj) == IF is_asset_class(obj) THEN {obj.asset} ELSE {c.asset : c \in obj.set}
KeyValues(obj) == IF IsStrOrNone(obj) THEN {KeyOf(obj)} ELSE {KeyOf(c) : c \in obj.set}
Denoted(cdef) ==
    IF IsTuple(cdef) THEN {<<asset, key>> : asset \in AssetNames(cdef.tuple[1]),
                                            key \in KeyValues(cdef.tuple[2])}
    ELSE {<<asset, None>> : asset \in AssetNames(cdef)}
ExpectedPaths(context) ==
    IF IsContractDef(context) THEN {<<contract>> : contract \in Denoted(context)}
    ELSE LET elems == ElemsOf(context)
             all == UNION {Denoted(elems[i]) : i \in 1..Len(elems)}
         IN {path \in [1..Len(elems) -> all] : \A i \in 1..Len(elems) : path[i] \in Denoted(elems[i])}
ContextOf(r2c, recipe) == IF recipe \in DOMAIN r2c THEN r2c[recipe] ELSE {}

\* C28: add() expands a context literal into the set-product of concrete
\* context paths: a single contract def gives one single-element path per
\* contract it denotes, a sequence of defs gives the product of the
\* per-position contract sets, the default context () gives the set with
\* the empty path only; the contexts given for a recipe in several add()
\* calls accumulate.
C28_ContextExpansion ==
    [][AddCallStep /\ IsContextSpec(TheCall.context)
       => /\ error' = None
          /\ DOMAIN recipe_to_context' = DOMAIN recipe_to_context \cup RecipesOf(TheCall)
          /\ \A recipe \in DOMAIN recipe_to_context' :
                ContextOf(recipe_to_context', recipe)
                   = ContextOf(recipe_to_context, recipe)
                        \cup (IF recipe \in RecipesOf(TheCall) THEN ExpectedPaths(TheCall.context)
                              ELSE {})]_vars

\* two add() calls for one recipe class, one with a contract def that
\* denotes four contracts and one with a sequence of two defs, have left the
\* five context paths with the recipe
C28_Witness ==
    /\ Len(add_calls) = 2
    /\ error = None
    /\ \E i, j \in 1..2 :
          /\ ~IsBundleCall(add_calls[i]) /\ ~IsBundleCall(add_calls[j])
          /\ add_calls[i].recipe = add_calls[j].recipe
          /\ IsContractDef(add_calls[i].context)
          /\ Cardinality(Denoted(add_calls[i].context)) = 4
          /\ ~IsContractDef(add_calls[j].context) /\ IsContextSpec(add_calls[j].context)
          /\ Len(ElemsOf(add_calls[j].context)) = 2
          /\ Cardinality(recipe_to_context[add_calls[i].recipe]) = 5
          /\ recipe_to_context[add_calls[i].recipe]
                = ExpectedPaths(add_calls[i].context) \cup ExpectedPaths(add_calls[j].context)

\* an add() call with the default context () after a call with a contract
\* def: the empty path is with the recipe, next to the path of the first call
C28_WitnessDefault ==
    /\ Len(add_calls) = 2
    /\ ~IsBundleCall(add_calls[1]) /\ ~IsBundleCall(add_calls[2])
    /\ add_calls[1].recipe = add_calls[2].recipe
    /\ add_calls[1].context = PyAsset("A")
    /\ add_calls[2].context = PyTuple(<<>>)
    /\ recipe_to_context[add_calls[1].recipe] = {<< <<"A", None>> >>, <<>>}

\* C29: add() with a context spec that is neither an asset class, a set of
\* asset classes, a 2-tuple (asset-or-set, key-or-set-or-None), nor a finite
\* sequence of those fails with the ValueError of resolve_contract_def
\* (BadContractSpec), and the failed call leaves contract_to_recipes and
\* recipe_to_context unchanged.
C29_BadContextFails ==
    [][AddCallStep /\ ~IsContextSpec(TheCall.context)
       => /\ error' = "ValueError"
          /\ UNCHANGED <<contract_to_recipes, recipe_to_context>>]_vars


\* seq[start..end] with the 0-based inclusive positions of the source
Window(sq, start, end) == SubSeq(sq, start + 1, end + 1)

\* the windows of seq that contain the context as a subsequence
ContainingWindows(context, sq) ==
    {w \in (0..(Len(sq) - 1)) \X (0..(Len(sq) - 1)) :
        w[1] <= w[2] /\ IsSubsequence(context, Window(sq, w[1], w[2]))}

\* C31: for every context that is a non-empty subsequence of seq,
\* best_subsequence_window returns a window (start, end) such that the
\* context is a subsequence of seq[start..end] and no strictly shorter
\* window of seq contains the context as a subsequence.
C31_ShortestWindow ==
    (/\ Scored
     /\ Len(score_call.context) > 0
     /\ IsSubsequence(score_call.context, score_call.edge_path_keys))
    => \E windows \in {ContainingWindows(score_call.context, score_call.edge_path_keys)} :
          /\ score_win \in windows
          /\ \A w \in windows : w[2] - w[1] >= score_win[2] - score_win[1]

\* the window returned is not the first one the forward scan completes: a
\* shorter one starts later in seq
C31_Witness ==
    /\ Scored
    /\ Len(score_call.context) = 2
    /\ score_win \in ContainingWindows(score_call.context, score_call.edge_path_keys)
    /\ score_win[2] - score_win[1] = 1
    /\ \E w \in ContainingWindows(score_call.context, score_call.edge_path_keys) :
          /\ w[1] = 0
          /\ w[2] < score_win[2]
          /\ w[2] - w[1] > 1
          /\ \A v \in ContainingWindows(score_call.context, score_call.edge_path_keys) :
                v[2] <= w[2] => v[2] - v[1] > 1


\* C32: for every seq, strict_order_match_score([], seq) is strictly
\* positive, and strictly less than strict_order_match_score(ctx, seq) for
\* every non-empty ctx that is a subsequence of seq (epsilon = 1e-9,
\* length_weight = 1, early_tie_breaker = 0.1).
C32_EmptyContextScoresLeast ==
    Scored =>
       /\ Len(score_call.context) = 0 => FitGT(score_ret, Zero)
       /\ (Len(score_call.context) > 0
           /\ IsSubsequence(score_call.context, score_call.edge_path_keys))
          => /\ FitGT(strict_order_match_score(<<>>, score_call.edge_path_keys), Zero)
             /\ FitGT(score_ret, strict_order_match_score(<<>>, score_call.edge_path_keys))

\* the scorer returned for a context of one contract that occurs only at
\* the end of the longest seq: the smallest score of a non-empty match
C32_Witness ==
    /\ Scored
    /\ Len(score_call.context) = 1
    /\ Len(score_call.edge_path_keys) = MaxScoreLen
    /\ score_win = <<MaxScoreLen - 1, MaxScoreLen - 1>>
    /\ FitGT(score_ret, strict_order_match_score(<<>>, score_call.edge_path_keys))

\* the scorer returned for the empty context and a non-empty seq
C32_WitnessEmpty ==
    /\ Scored
    /\ Len(score_call.context) = 0
    /\ Len(score_call.edge_path_keys) > 0
    /\ FitGT(score_ret, Zero)


----------------------------------------------------------------------------
(***************************************************************************)
(* Properties of the split: satisfy_dependency is about to run for a       *)
(* dependency that is already satisfied by a child that fits less well     *)
(* than a node to reuse or the picked recipe.                              *)
(***************************************************************************)

\* the dependency satisfy_dependency runs for, and what it finds
DepParent == ParentOf(parent_path)
DepContract == parse_dependencies[node[DepParent].recipe][dep_idx]
DepPick == pick_recipe(DepContract, parent_path)
DepReuse == pick_existing_node(DepPick, parent_path)
DepChild == curr_child_node(DepParent, DepContract)
DepChildFitness == compute_fitness(node[DepChild].context, parent_path)
ReuseIsBetter ==
    DepReuse # 0 /\ FitGT(compute_fitness(node[DepReuse].context, parent_path), DepChildFitness)

\* satisfy_dependency is about to split
AtSplit ==
    /\ pc = "deps"
    /\ DepPick.kind = "pick"
    /\ DepChild # 0
    /\ ReuseIsBetter \/ FitGT(DepPick.fitness, DepChildFitness)

\* the context the split is made for, the simple edge paths from the parent to
\* the sink, and the paths compute_isolating_edge takes as matching
SplitContext ==
    IF ReuseIsBetter THEN node[DepReuse].context ELSE recipe_to_context[DepPick.recipe]
SplitPaths == Range(all_simple_edge_paths(G_edges, DepParent, target_node))
TakenAsMatching ==
    IsoScan(all_simple_edge_paths(G_edges, DepParent, target_node), 1,
            [matching_paths |-> {}, isolating_edges |-> <<>>, nonmatching |-> {}],
            SplitContext, node[DepChild].context).matching_paths

\* C34: during a split, a simple edge path from parent to the sink is
\* classified as matching if and only if
\* fitness(context, path) > fitness(currentChild.context, path) > 0.
C34_MatchingPaths ==
    AtSplit =>
       \A path \in SplitPaths :
          path \in TakenAsMatching
             <=> /\ FitGT(compute_fitness(SplitContext, path),
                          compute_fitness(node[DepChild].context, path))
                 /\ FitGT(compute_fitness(node[DepChild].context, path), Zero)


\* C34 as the source has it: a simple edge path from parent to the sink is
\* classified as matching if and only if fitness(context, path) > 0 and
\* fitness(context, path) > fitness(currentChild.context, path), and as
\* non-matching otherwise; the current child's own fitness may be zero.
C34_MatchingPathsAmended ==
    AtSplit =>
       \A path \in SplitPaths :
          path \in TakenAsMatching
             <=> /\ FitGT(compute_fitness(SplitContext, path), Zero)
                 /\ FitGT(compute_fitness(SplitContext, path),
                          compute_fitness(node[DepChild].context, path))

\* a split with a matching path on which the current child scores zero, and
\* a non-matching path beside it
C34_Witness ==
    /\ AtSplit
    /\ \E path \in TakenAsMatching :
          compute_fitness(node[DepChild].context, path) = Zero
    /\ SplitPaths \ TakenAsMatching # {}


\* a planning path as add_edge enqueues it after a split: its first edge ends
\* in the copy of the parent, the rest is the path the parent was dequeued with
AfterSplit(path) == Len(path) >= 2 /\ path[1][2] # path[2][1]

\* C33: every producer node the planner attaches, the better child attached
\* to the copy of the parent after a split included, is later dequeued as the
\* nearest endpoint of a planning path whose edges all still exist: the path
\* enqueued after a split is not dropped by the stale-path skip when run()
\* takes it from the queue.
C33_SplitPathProcessed ==
    pc = "queue" /\ queue # <<>> /\ AfterSplit(Head(queue))
        => \A i \in 1..Len(Head(queue)) : Head(queue)[i] \in Range(G_edges)


\* what compute_isolating_edge comes to when nx.all_simple_edge_paths yields
\* the simple paths in the order `paths`
IsolatingEdgesIn(paths) ==
    Let(IsoScan(paths, 1, [matching_paths |-> {}, isolating_edges |-> <<>>, nonmatching |-> {}],
                SplitContext, node[DepChild].context),
        LAMBDA st : IsoGreedy(st.isolating_edges, st.matching_paths, {}))

\* the orders in which a finite set can be enumerated
RECURSIVE Enumerations(_)
Enumerations(S) ==
    IF S = {} THEN {<<>>}
    ELSE UNION {{<<x>> \o rest : rest \in Enumerations(S \ {x})} : x \in S}

\* the matching and the non-matching simple paths of the split, and the
\* edges that lie on a matching path and on no non-matching one
MatchingPaths ==
    {path \in SplitPaths :
        /\ FitGT(compute_fitness(SplitContext, path), Zero)
        /\ FitGT(compute_fitness(SplitContext, path),
                 compute_fitness(node[DepChild].context, path))}
NonMatchingPaths == SplitPaths \ MatchingPaths
CandidateEdges ==
    UNION {Range(path) : path \in MatchingPaths} \ UNION {Range(path) : path \in NonMatchingPaths}
SomePathWithoutCandidate == \E path \in MatchingPaths : Range(path) \cap CandidateEdges = {}

\* C35: compute_isolating_edge returns only edges that lie on at least one
\* matching path and on no non-matching simple path, and every matching path
\* contains at least one returned edge; if some matching path has no such
\* edge the split fails with NoIsolatingEdge instead of returning; all this
\* in whatever order the simple paths are enumerated.
C35_IsolatingEdges ==
    [][AtSplit =>
          \E matching \in {MatchingPaths}, candidates \in {CandidateEdges} :
          \E uncoverable \in {\E path \in matching : Range(path) \cap candidates = {}} :
             /\ \A paths \in Enumerations(SplitPaths) :
                   \E iso \in {IsolatingEdgesIn(paths)} :
                      /\ iso.picked_edges \subseteq candidates
                      /\ iso.matching_paths = {} <=> ~uncoverable
                      /\ iso.matching_paths = {} =>
                            \A path \in matching : Range(path) \cap iso.picked_edges # {}
             /\ uncoverable <=> pc' = "failed" /\ error' = "NoIsolatingEdge"]_vars

\* a split for which two isolating edges are returned, with a non-matching
\* path beside the matching ones
C35_Witness ==
    /\ AtSplit
    /\ NonMatchingPaths # {}
    /\ \E iso \in {compute_isolating_edge(SplitContext, DepParent, DepChild)} :
          Cardinality(iso.picked_edges) >= 2 /\ iso.matching_paths = {}

\* a split that fails: every edge of some matching path lies on a
\* non-matching path as well
C35_WitnessFails == AtSplit /\ SomePathWithoutCandidate /\ NonMatchingPaths # {}


\* C36: a split leaves non-matching paths untouched: the only edges it
\* removes are the selected isolating edges, so every non-matching simple
\* path from parent to the sink and the edge currentChildEdge exist unchanged
\* after the split, and the original parent keeps its current child.
C36_NonMatchingUntouched ==
    [][AtSplit /\ pc' # "failed" =>
          \E parent \in {DepParent}, contract \in {DepContract}, child \in {DepChild},
             iso \in {compute_isolating_edge(SplitContext, DepParent, DepChild)} :
             /\ Range(G_edges) \ Range(G_edges') = iso.picked_edges
             /\ \A path \in NonMatchingPaths : Range(path) \subseteq Range(G_edges')
             /\ <<child, parent, contract>> \in Range(G_edges')
             /\ curr_child_node(parent, contract)' = child]_vars

\* a split has been made: the path of the better child is on the queue, an
\* edge of the old path is gone, and the original parent has a producer for
\* the contract
C36_Witness ==
    /\ pc # "failed"
    /\ \E k \in 1..Len(queue) :
          /\ AfterSplit(queue[k])
          /\ \E i \in 2..Len(queue[k]) : queue[k][i] \notin Range(G_edges)
          /\ \E e \in Range(G_edges) : e[2] = queue[k][2][1] /\ e[3] = queue[k][1][3]


\* the isolating edges a split is made with, and the duplicated node set H
SelectedEdges == compute_isolating_edge(SplitContext, DepParent, DepChild).picked_edges
SplitSelected ==
    AtSplit /\ compute_isolating_edge(SplitContext, DepParent, DepChild).matching_paths = {}
SplitH == SplitNodes(DepParent, SelectedEdges)

\* C37: for every isolating edge (u, v, c) selected for a split, u belongs to
\* the duplicated node set H and v lies outside H, where H = (descendants of
\* parent intersected with the ancestors of the isolating edges' consumers)
\* plus parent.
C37_IsolatingEdgeLeavesH ==
    SplitSelected => \A e \in SelectedEdges : e[1] \in SplitH /\ e[2] \notin SplitH

\* C37 as the source has it: for every isolating edge (u, v, c) selected for
\* a split, u belongs to H, v is not the parent, and v lies outside H unless
\* v is an ancestor of the consumer of a selected isolating edge, in which
\* case v is duplicated with the rest of H.
C37_IsolatingEdgeFromH ==
    SplitSelected =>
       \A e \in SelectedEdges :
          /\ e[1] \in SplitH
          /\ e[2] # DepParent
          /\ e[2] \in SplitH =>
                \E other \in SelectedEdges : e[2] \in Ancestors(G_edges, other[2])

\* a split with two isolating edges, the consumer of one of them inside H
C37_Witness ==
    /\ SplitSelected
    /\ \E e \in SelectedEdges : e[2] \in SplitH
    /\ \E e \in SelectedEdges : e[2] \notin SplitH


\* some node of G has two in-edges labelled with the same contract
DoubleInEdge ==
    \E i, j \in 1..Len(G_edges) :
       i # j /\ G_edges[i][2] = G_edges[j][2] /\ G_edges[i][3] = G_edges[j][3]

\* C39: in every graph state reached during planning no node has two
\* in-edges labelled with the same contract; the copy of the parent returned
\* by a split has no in-edge for the replaced contract, so installing the
\* better child on it never raises DoubleContract.
C39_OneProducerPerContract == ~DoubleInEdge /\ error # "DoubleContract"


\* satisfy_dependency is about to keep the current child (case E): the
\* parent has a producer for the contract, and neither a node to reuse nor
\* the picked recipe fits the path strictly better
KeepsCurrent ==
    /\ pc = "deps"
    /\ DepPick.kind = "pick"
    /\ DepChild # 0
    /\ ~ReuseIsBetter
    /\ ~FitGT(DepPick.fitness, DepChildFitness)

\* C40: when the parent already has a producer for the contract and neither
\* a reuse candidate nor the picked recipe has strictly higher fitness than
\* the current child on the path (case E), satisfy_dependency leaves the
\* graph unchanged and enqueues exactly one path, the existing edge prepended
\* to the current path; use_edge refuses only an edge that is on the current
\* path already, with Cycle and nothing enqueued.
C40_KeepCurrent ==
    [][KeepsCurrent =>
          \E edge \in {<<DepChild, DepParent, DepContract>>} :
             /\ UNCHANGED <<node, G_nodes, G_edges>>
             /\ IF edge \in Range(parent_path)
                THEN pc' = "failed" /\ error' = "Cycle" /\ queue' = queue
                ELSE pc' # "failed" /\ queue' = Append(queue, <<edge>> \o parent_path)]_vars

\* case E on a path of two edges or more, with other paths waiting
C40_Witness ==
    /\ KeepsCurrent
    /\ Len(parent_path) >= 2
    /\ queue # <<>>
    /\ <<DepChild, DepParent, DepContract>> \notin Range(parent_path)


\* every matching path has an edge of the set on it
Isolates(edges) == \A path \in MatchingPaths : Range(path) \cap edges # {}

\* C38: the isolating edge set chosen by the greedy selection is minimal:
\* removing any edge from the returned set leaves at least one matching path
\* without an isolating edge in the set.
C38_MinimalEdgeSet ==
    SplitSelected => \A e \in SelectedEdges : ~Isolates(SelectedEdges \ {e})

=============================================================================
